---- MODULE Spec2Model ----
(***************************************************************************)
(* Model of the hierarchical configuration tree (lingvo.core.hyperparams   *)
(* Params, the spec's "ConfigNode") as it is exercised by                  *)
(* lingvo/core/hyperparams_test.py.                                        *)
(*                                                                         *)
(* Nodes live in a heap: a node is an identity (1..MaxNodes), a mapping    *)
(* from names to values and a frozen flag.  A value is an atom, a dict (a  *)
(* container that is not a node) or a reference to a node, so that nested  *)
(* nodes are shared by reference exactly as Python objects are.            *)
(*                                                                         *)
(* A call either returns or raises.  The outcome of the last call is kept  *)
(* in `last`; a raised exception is caught by the caller (assertRaises),   *)
(* who then goes on with its next call.                                    *)
(*                                                                         *)
(* The text form of a node (ToText, FromText, TextDiff) is specified by    *)
(* TextSpec and the sharing of nested nodes by RefSpec.  The TPU executor  *)
(* (lingvo/executor.py, ExecutorTpu.__init__ and _Loop) is specified by    *)
(* ExecSpec, and the checkpointer (lingvo/core/checkpointer.py) on its own *)
(* by CheckpointerSpec.                                                    *)
(***************************************************************************)
EXTENDS Integers, Sequences, FiniteSets, TLC

\* ------------------------------------------------------------------ bounds
\* Nodes the heap can hold, calls that return normally, names in a dotted path.
MaxNodes == 4
MaxOps == 2
MaxPathLen == 2
\* Writes made to p before its text is taken.
MaxWrites == 1

\* ------------------------------------------------------------------ names
\* A name is a sequence of one-character strings.  None (not a string at all)
\* is the one-element sequence holding the token "None".
NoneName == <<"None">>
LowerChars == {"a", "b"}
DigitChars == {"9"}
UnderChar == "_"

\* '_immutable', the attribute that holds the frozen flag.
ImmutableName == <<"_", "i">>

\* Mutant of MatchesPattern: only the first character is looked at.
MatchesFirstOnly(nm) == Len(nm) >= 1 /\ nm[1] \in LowerChars

\* re.match('^[a-z][a-z0-9_]*$', name) for a name that is a string
MatchesPattern(nm) ==
  /\ Len(nm) >= 1
  /\ nm[1] \in LowerChars
  /\ \A i \in 2..Len(nm) : nm[i] \in LowerChars \cup DigitChars \cup {UnderChar}

ValidName(nm) == nm # NoneName /\ MatchesPattern(nm)

\* 'foo_bar' and 'foo9', the two names testLegalParamNames defines.
Name1 == <<"a", "_">>
Name2 == <<"b", "9">>

\* The names handed to Define: None, '', '_immutable', 'Foo', '1foo', 'foo$',
\* 'foo_bar', 'foo9' of testLegalParamNames and testFreeze, shortened.
NamePool ==
  { NoneName, <<>>, ImmutableName, <<"A">>, <<"9", "a">>, <<"a", "$">>,
    Name1, Name2 }

GoodNames == { nm \in NamePool : ValidName(nm) }

RECURSIVE PathsOfLen(_)
PathsOfLen(k) ==
  IF k = 0 THEN { <<>> }
  ELSE { Append(p, nm) : p \in PathsOfLen(k - 1), nm \in GoodNames }

\* Dotted paths 'x', 'x.y', ... given to Set, Get and Delete, and the one
\* attribute name '_immutable'.
PathPool == UNION { PathsOfLen(k) : k \in 1..MaxPathLen } \cup { <<ImmutableName>> }

\* ------------------------------------------------------------------ values
Atom(i) == [kind |-> "atom", v |-> i]
DictV == [kind |-> "dict", v |-> 0]
NodeV(n) == [kind |-> "node", v |-> n]
Atoms == { Atom(1), Atom(2) }
NoValue == Atom(0)

NodeIds == 1..MaxNodes
NoNames == [nm \in {} |-> NoValue]

VARIABLES used, params, frozen, last, steps

\* The state of the configuration tree.
paramVars == <<used, params, frozen, last, steps>>

\* The executor: its configuration (fixed at construction), the position of
\* the thread in __init__ and _Loop, the session's global step, the locals of
\* _Loop, the checkpoints written to the train directory and the log of the
\* loop.
VARIABLES single_task_mode, model_task_name, max_steps, save_interval_seconds,
          steps_per_run, pc, GlobalStep, global_step, program_schedule,
          checkpoints, events

\* The calls the accelerator and the programs have received, the attempts of
\* _WaitTillInit made, the position in the list of programs being walked, and
\* the calls on the session that have begun and not returned.
VARIABLES calls, attempts, next_program, in_progress

\* A Checkpointer and its session: whether it is save-only, the time of the
\* next checkpoint of MaybeSave, the clock, where the value of each global
\* variable comes from, whether the train directory has a checkpoint, the
\* variables its saver restores, the variables init_from_checkpoint_rules name
\* and how its last call ended.
VARIABLES save_only, next_checkpoint_seconds, now, var_values, latest_checkpoint,
          saver_vars, rule_vars, result

ckptVars == <<save_only, next_checkpoint_seconds, now, var_values, latest_checkpoint,
              saver_vars, rule_vars, result>>

\* What the constructor is given and never changes.
config == <<single_task_mode, model_task_name, max_steps, save_interval_seconds,
            steps_per_run>>

execVars == <<single_task_mode, model_task_name, max_steps, save_interval_seconds,
              steps_per_run, pc, GlobalStep, global_step, program_schedule,
              checkpoints, events, calls, attempts, next_program, in_progress,
              ckptVars>>

vars == <<paramVars, execVars>>

\* tf.global_variables(): the global step and a weight.
GlobalVars == {"global_step", "w"}

\* The checkpointer of the executor: save-only, nothing restored through it.
NoCheckpointer ==
  /\ save_only = TRUE
  /\ next_checkpoint_seconds = 0
  /\ now = 0
  /\ var_values = [v \in GlobalVars |-> "none"]
  /\ latest_checkpoint = FALSE
  /\ saver_vars = GlobalVars
  /\ rule_vars = {}
  /\ result = "ok"

\* No executor has been constructed.
NoExecutor ==
  /\ NoCheckpointer
  /\ single_task_mode = TRUE
  /\ model_task_name = ""
  /\ max_steps = 0
  /\ save_interval_seconds = 0
  /\ steps_per_run = <<>>
  /\ pc = "none"
  /\ GlobalStep = 0
  /\ global_step = 0
  /\ program_schedule = ""
  /\ checkpoints = <<>>
  /\ events = <<>>
  /\ calls = <<>>
  /\ attempts = 0
  /\ next_program = 1
  /\ in_progress = {}

Allocated == 1..used

\* No exception is propagating: the caller goes on to its next call.
Running == last.kind = "ok"

\* The nodes a call can be made on: none while an exception is propagating.
Targets == IF Running THEN Allocated ELSE {}

\* ------------------------------------------------------------------ outcomes
\* A call: the operation, the node it is called on (0 for Params()), its
\* dotted path or name and its value.
Call(op, n, path, val) == [op |-> op, node |-> n, path |-> path, val |-> val]

\* The call returned: ret is the node Params() or Copy() returned, 0 otherwise.
Returned(c, ret) ==
  [op |-> c.op, node |-> c.node, path |-> c.path, val |-> c.val,
   kind |-> "ok", names |-> <<>>, ret |-> ret,
   after |-> [op |-> c.op, node |-> c.node, path |-> c.path, val |-> c.val, ret |-> ret]]

\* The call raised: kind is the error, names the dotted path its message
\* names.  after keeps the last call that returned.
Raised(c, kind, names) ==
  [op |-> c.op, node |-> c.node, path |-> c.path, val |-> c.val,
   kind |-> kind, names |-> names, ret |-> 0, after |-> last.after]

Outcome(c, kind, names) ==
  IF kind = "ok" THEN Returned(c, 0) ELSE Raised(c, kind, names)

\* The Python exception class of an outcome.
ErrClass(kind) ==
  CASE kind = "ok" -> "none"
    [] kind = "frozen" -> "TypeError"
    [] kind = "duplicate" -> "AttributeError"
    [] kind = "undefined" -> "AttributeError"
    [] kind = "invalid_name" -> "AssertionError"
    [] kind = "cannot_introspect" -> "AssertionError"
    [] kind = "unreadable" -> "ValueError"

\* The model follows MaxOps calls that return; a call that raises changes
\* nothing and is always followed.
Budget(kind) == kind = "ok" => steps < MaxOps
Spent(kind) == IF kind = "ok" THEN steps + 1 ELSE steps

\* ------------------------------------------------------------------ Init
\* p = Params(): one empty node.
EmptyHeap == [n \in NodeIds |-> NoNames]

\* outer and inner as testSetAndGetNestedParam builds them: outer holds an atom
\* and the node inner, inner holds an atom.
NestedHeap ==
  [n \in NodeIds |->
     IF n = 1 THEN (Name1 :> Atom(1)) @@ (Name2 :> NodeV(2))
     ELSE IF n = 2 THEN (Name1 :> Atom(1))
     ELSE NoNames]

Init ==
  /\ \/ /\ used = 1
        /\ params = EmptyHeap
        /\ last = Returned(Call("Params", 0, <<>>, NoValue), 1)
     \/ /\ used = 2
        /\ params = NestedHeap
        /\ last = Returned(Call("Define", 1, <<Name2>>, NodeV(2)), 0)
  /\ frozen = [n \in NodeIds |-> FALSE]
  /\ steps = 0
  /\ NoExecutor

\* ------------------------------------------------------------------ reachability
Children(ps, n) ==
  { ps[n][nm].v : nm \in { x \in DOMAIN ps[n] : ps[n][x].kind = "node" } }

RECURSIVE ReachFrom(_, _, _)
ReachFrom(ps, frontier, seen) ==
  IF frontier = {} THEN seen
  ELSE LET next == (UNION { Children(ps, n) : n \in frontier }) \ seen
       IN ReachFrom(ps, next, seen \cup next)

\* The nodes contained in n, n included.
Reach(ps, n) == ReachFrom(ps, {n}, {n})

\* The values a caller can store into node n: atoms, a dict, and any existing
\* node that does not contain n (the tree stays acyclic).
ValuesFor(n) ==
  Atoms \cup {DictV} \cup { NodeV(m) : m \in { x \in Allocated : n \notin Reach(params, x) } }

\* ------------------------------------------------------------------ Params()
New ==
  /\ Running
  /\ Budget("ok")
  /\ used < MaxNodes
  /\ used' = used + 1
  /\ last' = Returned(Call("Params", 0, <<>>, NoValue), used + 1)
  /\ steps' = Spent("ok")
  /\ UNCHANGED <<params, frozen>>
  /\ UNCHANGED execVars

\* ------------------------------------------------------------------ Define
\* The mapping f with name nm bound to v (added or replaced).
WithEntry(f, nm, v) ==
  [x \in DOMAIN f \cup {nm} |-> IF x = nm THEN v ELSE f[x]]

\* Mutant of WithoutEntry: the whole mapping is cleared.
WithoutAny(f, nm) == [x \in {} |-> f[x]]

\* The mapping f without name nm.
WithoutEntry(f, nm) == [x \in DOMAIN f \ {nm} |-> f[x]]

\* Mutant of DefineOutcome: a name that is already there is defined again.
DefineOutcomeNoDuplicate(n, nm) ==
  IF frozen[n] THEN "frozen"
  ELSE IF ~ValidName(nm) THEN "invalid_name"
  ELSE "ok"

\* Define(name, default, description) on node n: the outcome.
DefineOutcome(n, nm) ==
  IF frozen[n] THEN "frozen"
  ELSE IF ~ValidName(nm) THEN "invalid_name"
  ELSE IF nm \in DOMAIN params[n] THEN "duplicate"
  ELSE "ok"

Define(n, nm, v) ==
  /\ Running
  /\ LET kind == DefineOutcome(n, nm) IN
       /\ Budget(kind)
       /\ params' = IF kind = "ok"
                    THEN [params EXCEPT ![n] = WithEntry(params[n], nm, v)]
                    ELSE params
       /\ last' = Outcome(Call("Define", n, <<nm>>, v), kind,
                          IF kind = "duplicate" THEN <<nm>> ELSE <<>>)
       /\ steps' = Spent(kind)
  /\ UNCHANGED <<used, frozen>>
  /\ UNCHANGED execVars

\* ------------------------------------------------------------------ path resolution
\* Walks path from node n over its first Len(path)-1 segments.  kind "ok": node
\* is the holder of the terminal name key; otherwise path is the dotted prefix
\* that could not be resolved.  visited: the nodes walked through.
RECURSIVE GetNestedFrom(_, _, _, _, _)
GetNestedFrom(ps, n, path, i, visited) ==
  IF i = Len(path)
  THEN [kind |-> "ok", node |-> n, key |-> path[i], path |-> path,
        visited |-> visited \cup {n}]
  ELSE IF path[i] \notin DOMAIN ps[n]
  THEN [kind |-> "undefined", node |-> n, key |-> path[i],
        path |-> SubSeq(path, 1, i), visited |-> visited \cup {n}]
  ELSE IF ps[n][path[i]].kind # "node"
  THEN [kind |-> "cannot_introspect", node |-> n, key |-> path[i],
        path |-> SubSeq(path, 1, i), visited |-> visited \cup {n}]
  ELSE GetNestedFrom(ps, ps[n][path[i]].v, path, i + 1, visited \cup {n})

GetNested(ps, n, path) == GetNestedFrom(ps, n, path, 1, {})

\* Get(dotted_path) / attribute read: [kind, path, val].
Get(ps, n, path) ==
  LET r == GetNested(ps, n, path) IN
    IF r.kind # "ok" THEN [kind |-> r.kind, path |-> r.path, val |-> NoValue]
    ELSE IF r.key \notin DOMAIN ps[r.node]
    THEN [kind |-> "undefined", path |-> path, val |-> NoValue]
    ELSE [kind |-> "ok", path |-> path, val |-> ps[r.node][r.key]]

\* `name in node`
Contains(ps, n, nm) == nm \in DOMAIN ps[n]

\* Mutant of PathFrozen: only the node the call is made on is looked at.
PathFrozenRootOnly(fz, n, r) == fz[n]

\* A node on the path walked from n is frozen.
PathFrozen(fz, n, r) == \E m \in r.visited : fz[m]

\* Mutant of MutateOutcome: a terminal name that is not there is not reported.
MutateOutcomeNoUndefined(n, path) ==
  LET r == GetNested(params, n, path) IN
    IF PathFrozen(frozen, n, r) THEN [kind |-> "frozen", path |-> <<>>]
    ELSE IF r.kind # "ok" THEN [kind |-> r.kind, path |-> r.path]
    ELSE [kind |-> "ok", path |-> <<>>]

\* The outcome of a mutation (Set, Delete) of path from node n, and the path
\* its error message names.
MutateOutcome(n, path) ==
  LET r == GetNested(params, n, path) IN
    IF PathFrozen(frozen, n, r) THEN [kind |-> "frozen", path |-> <<>>]
    ELSE IF r.kind # "ok" THEN [kind |-> r.kind, path |-> r.path]
    ELSE IF r.key \notin DOMAIN params[r.node]
    THEN [kind |-> "undefined", path |-> path]
    ELSE [kind |-> "ok", path |-> <<>>]

\* ------------------------------------------------------------------ Set
\* p.Set(**{dotted_path: value}); with a path of one name also the attribute
\* write p.name = value, setattr(p, name, value).
Set(n, path, v) ==
  /\ Running
  /\ LET o == MutateOutcome(n, path)
         r == GetNested(params, n, path) IN
       /\ Budget(o.kind)
       /\ params' = IF o.kind = "ok"
                    THEN [params EXCEPT ![r.node] = WithEntry(params[r.node], r.key, v)]
                    ELSE params
       /\ last' = Outcome(Call("Set", n, path, v), o.kind, o.path)
       /\ steps' = Spent(o.kind)
  /\ UNCHANGED <<used, frozen>>
  /\ UNCHANGED execVars

\* ------------------------------------------------------------------ Delete
Delete(n, path) ==
  /\ Running
  /\ LET o == MutateOutcome(n, path)
         r == GetNested(params, n, path) IN
       /\ Budget(o.kind)
       /\ params' = IF o.kind = "ok"
                    THEN [params EXCEPT ![r.node] = WithoutEntry(params[r.node], r.key)]
                    ELSE params
       /\ last' = Outcome(Call("Delete", n, path, NoValue), o.kind, o.path)
       /\ steps' = Spent(o.kind)
  /\ UNCHANGED <<used, frozen>>
  /\ UNCHANGED execVars

\* ------------------------------------------------------------------ Freeze
\* Mutants of FreezeSet: a Freeze that marks nothing, and a Freeze that also
\* marks every node contained in p.
FreezeNothing(ps, n) == {}
FreezeDeep(ps, n) == Reach(ps, n)

\* The nodes p.Freeze() marks: p alone.  testFreeze writes p.nested.foo = 2
\* after p.Freeze() and reads 2 back.
FreezeSet(ps, n) == {n}

Freeze(n) ==
  /\ Running
  /\ Budget("ok")
  /\ frozen' = [m \in NodeIds |-> frozen[m] \/ m \in FreezeSet(params, n)]
  /\ last' = Returned(Call("Freeze", n, <<>>, NoValue), 0)
  /\ steps' = Spent("ok")
  /\ UNCHANGED <<used, params>>
  /\ UNCHANGED execVars

\* ------------------------------------------------------------------ Copy
\* The fresh identity of node m of the copied structure R.
FreshId(R, m) == used + Cardinality({ x \in R : x <= m })

\* The node of R whose clone is k.
Original(R, k) == CHOOSE m \in R : FreshId(R, m) = k

\* Mutant of CloneValue: a shallow copy, nested nodes are shared.
CloneValueShallow(R, val) == val

\* A value of the clone: nested nodes are replaced by their clones, every
\* other value is passed on as it is.
CloneValue(R, val) ==
  IF val.kind = "node" THEN NodeV(FreshId(R, val.v)) ELSE val

CloneEntries(R, f) == [nm \in DOMAIN f |-> CloneValue(R, f[nm])]

\* Mutant of CloneFrozen: a clone starts unfrozen.
CloneUnfrozen(m) == FALSE

\* The frozen flag a clone of node m starts with.
CloneFrozen(m) == frozen[m]

\* The identity of the node src.Copy() returns.
CopyRoot(src) == FreshId(Reach(params, src), src)

Copy(src) ==
  /\ Running
  /\ Budget("ok")
  /\ LET R == Reach(params, src)
         F == { FreshId(R, m) : m \in R } IN
       /\ used + Cardinality(R) <= MaxNodes
       /\ used' = used + Cardinality(R)
       /\ params' = [k \in NodeIds |->
                       IF k \in F THEN CloneEntries(R, params[Original(R, k)])
                       ELSE params[k]]
       /\ frozen' = [k \in NodeIds |->
                       IF k \in F THEN CloneFrozen(Original(R, k)) ELSE frozen[k]]
       /\ last' = Returned(Call("Copy", src, <<>>, NoValue), FreshId(R, src))
       /\ steps' = Spent("ok")
  /\ UNCHANGED execVars

\* ------------------------------------------------------------------ equality
\* a == b for two nodes: the same names, each with equal values.
RECURSIVE NodeEq(_, _, _)

\* Mutant of ValueEq: nested nodes are compared by identity.
ValueEqIdentity(ps, x, y) == x = y

ValueEq(ps, x, y) ==
  IF x.kind = "node" /\ y.kind = "node" THEN NodeEq(ps, x.v, y.v)
  ELSE IF x.kind = "node" \/ y.kind = "node" THEN FALSE
  ELSE x = y

NodeEq(ps, a, b) ==
  /\ DOMAIN ps[a] = DOMAIN ps[b]
  /\ \A nm \in DOMAIN ps[a] : ValueEq(ps, ps[a][nm], ps[b][nm])

\* ------------------------------------------------------------------ the caller
\* The values tried in a call that stores into node n.  A call that is rejected
\* never looks at its value, so one value stands for all of them there.
ArgsFor(n, kind) == IF kind = "ok" THEN ValuesFor(n) ELSE {Atom(1)}

\* The caller catches the exception (assertRaises) and goes on.
Caught ==
  /\ ~Running
  /\ last' = Returned(last.after, last.after.ret)
  /\ UNCHANGED <<used, params, frozen, steps>>
  /\ UNCHANGED execVars

\* ------------------------------------------------------------------ next-state
Next ==
  \/ New
  \/ \E n \in Targets, nm \in NamePool :
       \E v \in ArgsFor(n, DefineOutcome(n, nm)) : Define(n, nm, v)
  \/ \E n \in Targets, path \in PathPool :
       \E v \in ArgsFor(GetNested(params, n, path).node, MutateOutcome(n, path).kind) :
         Set(n, path, v)
  \/ \E n \in Targets, path \in PathPool : Delete(n, path)
  \/ \E n \in Targets : Freeze(n)
  \/ \E n \in Targets : Copy(n)
  \/ Caught

Spec == Init /\ [][Next]_vars

TypeOK ==
  /\ used \in 1..MaxNodes
  /\ steps \in 0..MaxOps
  /\ last.kind \in {"ok", "frozen", "duplicate", "undefined", "invalid_name", "cannot_introspect"}
  /\ \A n \in NodeIds : n > used => params[n] = NoNames /\ ~frozen[n]

\* ================================================================== text form
\* ToText / FromText / TextDiff of hyperparams_test.py.  A text is a sequence
\* of lines; a line is a dotted key and the tokens of the value's rendering.

\* ------------------------------------------------------------------ leaf values
\* A leaf value carries its Python type name as kind.  A float is held in
\* tenths (1.0 is 10), a list and a tuple hold the sequence of their elements.
IntV(i) == [kind |-> "int", v |-> i]
FloatV(t) == [kind |-> "float", v |-> t]
BoolV(b) == [kind |-> "bool", v |-> b]
StrV(s) == [kind |-> "str", v |-> s]
NoneV == [kind |-> "NoneType", v |-> 0]
ListV(es) == [kind |-> "list", v |-> es]
TupleV(es) == [kind |-> "tuple", v |-> es]

\* The numbers and strings that occur in values and in texts.
IntPool == {1, 2, 7, 42, 43}
TenthsPool == {10, 21}
StrPool == {"X", "C", "NoneType", "1.0"}

\* ------------------------------------------------------------------ rendering
\* repr of a float held in tenths: 10 is 1.0, 21 is 2.1.
FloatRepr(t) == ToString(t \div 10) \o "." \o ToString(t % 10)

\* A string in quotes.
Quote(s) == "'" \o s \o "'"

\* Mutant of ElemRepr: None inside a sequence is written as the name None.
ElemReprNone(e) ==
  CASE e.kind = "int" -> ToString(e.v)
    [] e.kind = "float" -> FloatRepr(e.v)
    [] e.kind = "bool" -> IF e.v THEN "True" ELSE "False"
    [] e.kind = "str" -> Quote(e.v)
    [] e.kind = "NoneType" -> "None"

\* The token of a scalar inside a list or tuple: its repr, where None has
\* become the string 'NoneType' (tuple : (1, 'NoneType') in testToText).
ElemRepr(e) ==
  CASE e.kind = "int" -> ToString(e.v)
    [] e.kind = "float" -> FloatRepr(e.v)
    [] e.kind = "bool" -> IF e.v THEN "True" ELSE "False"
    [] e.kind = "str" -> Quote(e.v)
    [] e.kind = "NoneType" -> Quote("NoneType")

\* The tokens of a leaf value after `key : `.
ValueRepr(val) ==
  CASE val.kind = "NoneType" -> <<"NoneType">>
    [] val.kind = "list" -> <<"[">> \o [i \in 1..Len(val.v) |-> ElemRepr(val.v[i])] \o <<"]">>
    [] val.kind = "tuple" -> <<"(">> \o [i \in 1..Len(val.v) |-> ElemRepr(val.v[i])] \o <<")">>
    [] OTHER -> <<ElemRepr(val)>>

\* The type tag ToText(include_types=True) gives for a leaf value.
TypeTag(val) == val.kind

\* ------------------------------------------------------------------ parsing
Parsed(val) == [kind |-> "ok", val |-> val]
Unparsed == [kind |-> "ValueError", val |-> NoneV]

IsIntLit(tok) == \E i \in IntPool : ToString(i) = tok
IsFloatLit(tok) == \E t \in TenthsPool : FloatRepr(t) = tok
IsQuoted(tok) == \E s \in StrPool : Quote(s) = tok

\* ast.literal_eval of one token.
LiteralOf(tok) ==
  IF IsIntLit(tok) THEN Parsed(IntV(CHOOSE i \in IntPool : ToString(i) = tok))
  ELSE IF IsFloatLit(tok) THEN Parsed(FloatV(CHOOSE t \in TenthsPool : FloatRepr(t) = tok))
  ELSE IF IsQuoted(tok) THEN Parsed(StrV(CHOOSE s \in StrPool : Quote(s) = tok))
  ELSE IF tok \in {"True", "False"} THEN Parsed(BoolV(tok = "True"))
  ELSE IF tok = "None" THEN Parsed(NoneV)
  ELSE Unparsed

\* ast.literal_eval of the tokens of a value: a list, a tuple or a scalar.
LiteralEval(toks) ==
  LET n == Len(toks)
      inner == SubSeq(toks, 2, n - 1)
      elems == [i \in 1..Len(inner) |-> LiteralOf(inner[i])]
      good == \A i \in 1..Len(inner) : elems[i].kind = "ok"
      vals == [i \in 1..Len(inner) |-> elems[i].val]
  IN IF n = 1 THEN LiteralOf(toks[1])
     ELSE IF n >= 2 /\ toks[1] = "[" /\ toks[n] = "]" /\ good THEN Parsed(ListV(vals))
     ELSE IF n >= 2 /\ toks[1] = "(" /\ toks[n] = ")" /\ good THEN Parsed(TupleV(vals))
     ELSE Unparsed

\* The text of the tokens as one string.
RECURSIVE JoinTokens(_)
JoinTokens(toks) ==
  IF Len(toks) = 0 THEN ""
  ELSE IF Len(toks) = 1 THEN toks[1]
  ELSE toks[1] \o " " \o JoinTokens(Tail(toks))

\* Mutant of UntypedNone: with an old value of None every text is refused.
UntypedNoneRefuses(toks) == Unparsed

\* The value read for an entry that held None when no type is known: the token
\* NoneType is None, a boolean word is the boolean (optional_bool : true in
\* testToText), anything else is a ValueError (scale : 1.0 in
\* testFromToTextTypes).
UntypedNone(toks) ==
  IF Len(toks) # 1 THEN Unparsed
  ELSE IF toks[1] = "NoneType" THEN Parsed(NoneV)
  ELSE IF toks[1] \in {"True", "true"} THEN Parsed(BoolV(TRUE))
  ELSE IF toks[1] \in {"False", "false"} THEN Parsed(BoolV(FALSE))
  ELSE Unparsed

\* The value FromText reads from toks for a type tag.  For a string the
\* quotes are taken off; a text that is a list is read as the list
\* (activation : ['RELU', 'NONE'] in testFromToText) and any other text is
\* the string itself (scale : 2.1 gives '2.1' in testTypeOverride).
TypedValue(tag, toks) ==
  CASE tag = "bool" -> Parsed(BoolV(toks[1] \notin {"False", "false"}))
    [] tag = "int" ->
         IF Len(toks) = 1 /\ IsIntLit(toks[1]) THEN LiteralOf(toks[1]) ELSE Unparsed
    [] tag = "float" ->
         IF Len(toks) = 1 /\ IsFloatLit(toks[1]) THEN LiteralOf(toks[1])
         ELSE IF Len(toks) = 1 /\ IsIntLit(toks[1])
         THEN Parsed(FloatV(10 * LiteralOf(toks[1]).val.v))
         ELSE Unparsed
    [] tag \in {"list", "tuple"} -> LiteralEval(toks)
    [] tag = "str" ->
         IF Len(toks) = 1 /\ IsQuoted(toks[1]) THEN LiteralOf(toks[1])
         ELSE IF toks[1] = "[" /\ LiteralEval(toks).kind = "ok" THEN LiteralEval(toks)
         ELSE Parsed(StrV(JoinTokens(toks)))
    [] tag = "NoneType" ->
         IF toks = <<"NoneType">> THEN Parsed(NoneV) ELSE Unparsed
    [] OTHER -> Unparsed

\* No type_overrides entry.
NoTag == "none"

\* Mutant of ValueFromText: the type override is not looked at.
ValueFromTextOldType(old, toks, tag) ==
  IF old.kind = "NoneType" THEN UntypedNone(toks)
  ELSE TypedValue(old.kind, toks)

\* _ValueFromText(key, old_val, val): the type is the override when there is
\* one and the type of the old value otherwise.
ValueFromText(old, toks, tag) ==
  IF tag # NoTag THEN TypedValue(tag, toks)
  ELSE IF old.kind = "NoneType" THEN UntypedNone(toks)
  ELSE TypedValue(old.kind, toks)

\* ------------------------------------------------------------------ keys
\* The leaves of node n: the dotted paths to the entries that hold no node.
RECURSIVE LeafPaths(_, _)
LeafPaths(ps, n) ==
  UNION { IF ps[n][nm].kind = "node"
          THEN { <<nm>> \o p : p \in LeafPaths(ps, ps[n][nm].v) }
          ELSE { <<nm>> } : nm \in DOMAIN ps[n] }

\* The characters of the dotted key 'x.y.z' of a path.
RECURSIVE DottedKey(_)
DottedKey(path) ==
  IF Len(path) = 1 THEN path[1]
  ELSE path[1] \o <<".">> \o DottedKey(Tail(path))

\* The order of the characters of a key (ASCII: '.' < digits < '_' < letters).
CharRank(ch) ==
  CASE ch = "." -> 46
    [] ch = "9" -> 57
    [] ch = "_" -> 95
    [] ch = "a" -> 97
    [] ch = "b" -> 98

\* s < t for two strings given as their characters.
RECURSIVE StrLess(_, _)
StrLess(s, t) ==
  IF Len(t) = 0 THEN FALSE
  ELSE IF Len(s) = 0 THEN TRUE
  ELSE IF s[1] # t[1] THEN CharRank(s[1]) < CharRank(t[1])
  ELSE StrLess(Tail(s), Tail(t))

\* Line x goes before line y.
KeyLess(x, y) == StrLess(DottedKey(x.key), DottedKey(y.key))

\* ------------------------------------------------------------------ ToText
\* The line `dotted.key : value` of the leaf at path, with the type tag that
\* ToText(include_types=True) returns for the key.
Line(path, toks, tag) == [key |-> path, toks |-> toks, tag |-> tag]

\* A line that starts with '#': `# foo : 123` in testToText.
CommentLine(path, toks) == [comment |-> TRUE, key |-> path, toks |-> toks, tag |-> "none"]

\* Mutant of IsComment: no line is taken for a comment.
IsCommentNever(ln) == FALSE

IsComment(ln) == "comment" \in DOMAIN ln

LeafLine(ps, n, path) ==
  Line(path, ValueRepr(Get(ps, n, path).val), TypeTag(Get(ps, n, path).val))

\* Line x put into the sorted sequence of lines.
RECURSIVE InsertLine(_, _)
InsertLine(x, lines) ==
  IF Len(lines) = 0 THEN <<x>>
  ELSE IF KeyLess(x, lines[1]) THEN <<x>> \o lines
  ELSE <<lines[1]>> \o InsertLine(x, Tail(lines))

\* Mutant of SortedLines: the lines stay in the order they were met.
UnsortedLines(lines) == lines

\* sorted(kv.items())
RECURSIVE SortedLines(_)
SortedLines(lines) ==
  IF Len(lines) = 0 THEN <<>>
  ELSE InsertLine(lines[1], SortedLines(Tail(lines)))

\* The orders in which the entries of a node can be met: every enumeration
\* of the set S.
RECURSIVE Orders(_)
Orders(S) ==
  IF S = {} THEN { <<>> }
  ELSE UNION { { <<x>> \o o : o \in Orders(S \ {x}) } : x \in S }

\* p.ToText(include_types=True) when the leaves are met in the given order:
\* one line per leaf, sorted by dotted key.
ToTextIn(ps, n, order) ==
  SortedLines([i \in 1..Len(order) |-> LeafLine(ps, n, order[i])])

\* p.ToText(include_types=True) / p.ToTextWithTypes()
ToText(ps, n) == ToTextIn(ps, n, CHOOSE o \in Orders(LeafPaths(ps, n)) : TRUE)

\* The text without its type map, as ToText() returns it.
Untyped(text) == [i \in 1..Len(text) |-> Line(text[i].key, text[i].toks, NoTag)]

\* ------------------------------------------------------------------ FromText
\* The lines of text from the i-th on, applied to node n of heap ps one after
\* the other: [kind, key, ps].  A key is looked up as Set does, the value is
\* read against the value the entry holds.  A line that cannot be read stops
\* the call; the lines before it have been applied.  A comment is skipped.
RECURSIVE FromTextFrom(_, _, _, _)
FromTextFrom(ps, n, text, i) ==
  IF i > Len(text) THEN [kind |-> "ok", key |-> <<>>, ps |-> ps]
  ELSE IF IsComment(text[i]) THEN FromTextFrom(ps, n, text, i + 1)
  ELSE
    LET ln == text[i]
        r == GetNested(ps, n, ln.key)
        old == Get(ps, n, ln.key)
        new == ValueFromText(old.val, ln.toks, ln.tag)
    IN IF PathFrozen(frozen, n, r) THEN [kind |-> "frozen", key |-> <<>>, ps |-> ps]
       ELSE IF old.kind # "ok" THEN [kind |-> old.kind, key |-> old.path, ps |-> ps]
       ELSE IF old.val.kind = "node" \/ new.kind # "ok"
       THEN [kind |-> "ValueError", key |-> ln.key, ps |-> ps]
       ELSE FromTextFrom([ps EXCEPT ![r.node] = WithEntry(ps[r.node], r.key, new.val)],
                         n, text, i + 1)

\* ------------------------------------------------------------------ TextDiff
\* str(value) as TextDiff prints it: a string without quotes.
DiffRepr(val) ==
  IF val.kind = "str" THEN <<val.v>>
  ELSE IF val.kind = "NoneType" THEN <<"None">>
  ELSE ValueRepr(val)

\* A line of a diff: the mark ('>', '<' or '?'), the depth of indentation, the
\* key and the value printed.
DiffLine(mark, depth, nm, toks) == [mark |-> mark, depth |-> depth, key |-> nm, toks |-> toks]

\* Mutant of SortedNames: the names in the reverse of sorted order.
RECURSIVE SortedNamesReversed(_)
SortedNamesReversed(S) ==
  IF S = {} THEN <<>>
  ELSE LET first == CHOOSE x \in S : \A y \in S \ {x} : StrLess(y, x)
       IN <<first>> \o SortedNamesReversed(S \ {first})

\* The names of S in sorted order.
RECURSIVE SortedNames(_)
SortedNames(S) ==
  IF S = {} THEN <<>>
  ELSE LET first == CHOOSE x \in S : \A y \in S \ {x} : StrLess(x, y)
       IN <<first>> \o SortedNames(S \ {first})

\* Mutant of DiffPair: the '>' line carries the other node's value.
DiffPairOtherFirst(depth, nm, mine, theirs) ==
  << DiffLine(">", depth, nm, DiffRepr(theirs)), DiffLine("<", depth, nm, DiffRepr(mine)) >>

\* The two lines for a leaf that differs: '>' carries the value of the node
\* TextDiff is called on, '<' the value of the other node
\* (a.a = 43, b.a = 42: a.TextDiff(b) is '> a: 43\n< a: 42\n' in testDiff).
DiffPair(depth, nm, mine, theirs) ==
  << DiffLine(">", depth, nm, DiffRepr(mine)), DiffLine("<", depth, nm, DiffRepr(theirs)) >>

\* a.TextDiff(b) over the names from the i-th on, at a depth of nesting.
RECURSIVE TextDiffFrom(_, _, _, _, _, _)
TextDiffFrom(ps, a, b, names, i, depth) ==
  IF i > Len(names) THEN <<>>
  ELSE
    LET nm == names[i]
        rest == TextDiffFrom(ps, a, b, names, i + 1, depth)
        inA == nm \in DOMAIN ps[a]
        inB == nm \in DOMAIN ps[b]
    IN IF inA /\ ~inB THEN <<DiffLine(">", depth, nm, DiffRepr(ps[a][nm]))>> \o rest
       ELSE IF inB /\ ~inA THEN <<DiffLine("<", depth, nm, DiffRepr(ps[b][nm]))>> \o rest
       ELSE IF ValueEq(ps, ps[a][nm], ps[b][nm]) THEN rest
       ELSE IF ps[a][nm].kind = "node" /\ ps[b][nm].kind = "node"
       THEN <<DiffLine("?", depth, nm, <<>>)>>
            \o TextDiffFrom(ps, ps[a][nm].v, ps[b][nm].v,
                            SortedNames(DOMAIN ps[ps[a][nm].v] \cup DOMAIN ps[ps[b][nm].v]),
                            1, depth + 1)
            \o rest
       ELSE DiffPair(depth, nm, ps[a][nm], ps[b][nm]) \o rest

TextDiff(ps, a, b) ==
  TextDiffFrom(ps, a, b, SortedNames(DOMAIN ps[a] \cup DOMAIN ps[b]), 1, 0)

\* ------------------------------------------------------------------ the text fixture
\* The entries of the nodes of testDeterministicSerialize and
\* testFromToTextTypes, with short names: an int, an entry whose default is
\* None, and a nested node with a string.
KeyInt == Name1
KeyOpt == <<"b">>
KeyNode == <<"a">>
KeyInner == <<"b">>

\* pclean: node k holds the int 42, None and the node k + 1, which holds 'X'.
CleanEntries(k) == (KeyInt :> IntV(42)) @@ (KeyOpt :> NoneV) @@ (KeyNode :> NodeV(k + 1))
CleanInner == (KeyInner :> StrV("X"))

\* p after p.a = 43, p.d = [1, 2], p.e.x = 7.
WrittenEntries(k) ==
  (KeyInt :> IntV(43)) @@ (KeyOpt :> ListV(<<IntV(1), IntV(2)>>)) @@ (KeyNode :> NodeV(k + 1))
WrittenInner == (KeyInner :> IntV(7))

\* The clean node (1, 2) and p (3, 4): a fresh copy of it, or the copy after
\* the three writes.
TextHeap(written) ==
  [n \in NodeIds |->
     CASE n = 1 -> CleanEntries(1)
       [] n = 2 -> CleanInner
       [] n = 3 -> IF written THEN WrittenEntries(3) ELSE CleanEntries(3)
       [] n = 4 -> IF written THEN WrittenInner ELSE CleanInner
       [] OTHER -> NoNames]

\* The two nodes calls are made on.
CleanRoot == 1
PRoot == 3
TextRoots == {CleanRoot, PRoot}

TextInit ==
  /\ used = 4
  /\ \E written \in BOOLEAN : params = TextHeap(written)
  /\ frozen = [n \in NodeIds |-> FALSE]
  /\ last = Returned(Call("Copy", CleanRoot, <<>>, NoValue), PRoot)
  /\ steps = 0
  /\ NoExecutor

\* The leaves written by Set and the values written.
TextPaths == { <<KeyInt>>, <<KeyOpt>>, <<KeyNode, KeyInner>> }

TextValues ==
  { IntV(43), NoneV, FloatV(10), BoolV(TRUE), StrV("C"),
    ListV(<<IntV(1), IntV(2)>>),
    TupleV(<<IntV(1), NoneV>>), TupleV(<<IntV(1), StrV("NoneType")>>) }

\* `# foo : 123` followed by `inner.baz : 'world'`, as in testToText.
CommentedText ==
  << CommentLine(<<KeyInt>>, <<"7">>), Line(<<KeyNode, KeyInner>>, <<Quote("C")>>, NoTag) >>

\* Lines written by hand, as the text given to FromText in testToText:
\* `optional_bool : true`, and a float, an int and a list for the same key.
HandTexts ==
  { << Line(<<KeyOpt>>, toks, NoTag) >> :
      toks \in { <<"true">>, <<"1.0">>, <<"7">>, <<"[", "1", "2", "]">> } }
    \cup { CommentedText }

\* The texts handed to FromText: what ToText returned for a node, with its
\* type map or without, and the lines written by hand.
TextsGiven ==
  { ToText(params, m) : m \in TextRoots }
    \cup { Untyped(ToText(params, m)) : m \in TextRoots }
    \cup HandTexts

\* ------------------------------------------------------------------ the text calls
\* p.name = value, p.Set(**{'e.x': value}) on a leaf of p.
TextSet(path, v) ==
  /\ steps < MaxWrites
  /\ Set(PRoot, path, v)

\* text = p.ToText() / p.ToTextWithTypes(), the leaves met in some order.
ToTextCall(n, typed) ==
  /\ Running
  /\ \E order \in Orders(LeafPaths(params, n)) :
       last' = Returned(Call("ToText", n, <<>>, BoolV(typed)),
                        IF typed THEN ToTextIn(params, n, order)
                        ELSE Untyped(ToTextIn(params, n, order)))
  /\ UNCHANGED <<used, params, frozen, steps>>
  /\ UNCHANGED execVars

\* p.FromText(text) / p.FromText(text, type_overrides=types)
\* / p.FromTextWithTypes(text), called once on the clean node, which is a
\* fresh copy until then.
FromTextCall(n, text) ==
  /\ Running
  /\ steps <= MaxOps
  /\ LET r == FromTextFrom(params, n, text, 1)
         kind == IF r.kind = "ValueError" THEN "unreadable" ELSE r.kind IN
       /\ params' = r.ps
       /\ last' = Outcome(Call("FromText", n, <<>>, ListV(text)), kind, r.key)
       /\ steps' = MaxOps + 1
  /\ UNCHANGED <<used, frozen>>
  /\ UNCHANGED execVars

\* a.TextDiff(b)
TextDiffCall(a, b) ==
  /\ Running
  /\ last' = Returned(Call("TextDiff", a, <<>>, NodeV(b)), TextDiff(params, a, b))
  /\ UNCHANGED <<used, params, frozen, steps>>
  /\ UNCHANGED execVars

TextNext ==
  \/ \E path \in TextPaths, v \in TextValues : TextSet(path, v)
  \/ \E n \in TextRoots, typed \in BOOLEAN : ToTextCall(n, typed)
  \/ \E text \in TextsGiven : FromTextCall(CleanRoot, text)
  \/ \E a, b \in TextRoots : TextDiffCall(a, b)
  \/ Caught

TextSpec == TextInit /\ [][TextNext]_vars

\* ------------------------------------------------------------------ shared nested nodes
\* outer, inner and a copy of inner as testToText builds them, with short
\* names: outer holds an int, the node inner, a list and a dict that hold
\* inner ('seqlen', 'complex_dict') and a list that holds inner.Copy()
\* ('list_of_params'); inner holds an int and a string.
OuterNode == 1
InnerNode == 2
CopyNode == 3

KeyAlpha == Name1
KeySeq == <<"a", "9">>
KeyDict == <<"b", "_">>
KeyCopies == <<"b", "a">>

\* A dict with the given values.
DictOf(vals) == [kind |-> "dict", v |-> vals]

InnerEntries == (KeyAlpha :> IntV(2)) @@ (KeyInner :> StrV("X"))

\* The entries of outer when its entry 'inner' holds node held.
OuterEntries(held) ==
  (KeyInt :> IntV(1)) @@ (KeyNode :> NodeV(held))
    @@ (KeySeq :> ListV(<<IntV(1), NodeV(InnerNode), IntV(2)>>))
    @@ (KeyDict :> DictOf(<<IntV(1), NodeV(InnerNode)>>))
    @@ (KeyCopies :> ListV(<<NodeV(CopyNode)>>))

\* Mutant of RefHeap: Define stored a copy of inner in outer.
RefHeapCopied ==
  [n \in NodeIds |->
     CASE n = OuterNode -> OuterEntries(CopyNode)
       [] n = InnerNode -> InnerEntries
       [] n = CopyNode -> InnerEntries
       [] OTHER -> NoNames]

\* The heap after outer.Define('inner', inner, '') and the other Defines.
RefHeap ==
  [n \in NodeIds |->
     CASE n = OuterNode -> OuterEntries(InnerNode)
       [] n = InnerNode -> InnerEntries
       [] n = CopyNode -> InnerEntries
       [] OTHER -> NoNames]

RefInit ==
  /\ used = 3
  /\ params = RefHeap
  /\ frozen = [n \in NodeIds |-> FALSE]
  /\ last = Returned(Call("Define", OuterNode, <<KeyCopies>>, ListV(<<NodeV(CopyNode)>>)), 0)
  /\ steps = 0
  /\ NoExecutor

\* The dotted paths given to Set and Delete on outer ('inner.alpha',
\* 'inner.baz', 'foo', the same through a second entry that holds inner, and
\* a path into the list, which cannot be walked), and the values set.
RefPaths ==
  { <<KeyNode, KeyAlpha>>, <<KeyNode, KeyInner>>, <<Name2, KeyAlpha>>, <<Name2, KeyInner>>,
    <<KeyInt>>, <<KeySeq, KeyInner>> }

RefValues == { IntV(3), StrV("C") }

\* The text `inner.baz : 'world'` of testToText, through either entry.
RefTexts ==
  { << Line(<<nm, KeyInner>>, <<Quote("C")>>, NoTag) >> : nm \in {KeyNode, Name2} }

\* outer.Set(**{'inner.alpha': 3})
RefSet(path, v) == Set(OuterNode, path, v)

\* outer.Delete('inner.innermost.zeta')
RefDelete(path) == Delete(OuterNode, path)

\* A second entry of outer defined with the node inner.
RefDefine == Define(OuterNode, Name2, NodeV(InnerNode))

\* outer.FromText("inner.baz : 'world'")
RefFromText(text) == FromTextCall(OuterNode, text)

RefNext ==
  \/ \E path \in RefPaths, v \in RefValues : RefSet(path, v)
  \/ \E path \in RefPaths : RefDelete(path)
  \/ RefDefine
  \/ \E text \in RefTexts : RefFromText(text)
  \/ Caught

RefSpec == RefInit /\ [][RefNext]_vars

\* ================================================================== executor
\* ExecutorTpu (lingvo/executor.py): the single thread that, in __init__,
\* waits for the accelerator, builds the sub-graph and the checkpointer of
\* every program, and, in _Loop, restores the programs, then reads the global
\* step, checks the stop condition, selects a program schedule, runs it and
\* saves a checkpoint, again and again.

\* ------------------------------------------------------------------ bounds
\* The largest configured target step and the most steps one schedule run adds.
MaxTarget == 2
MaxAdvance == 2

\* The attempts of _WaitTillInit that RetryOnTransientTfError makes at most.
MaxAttempts == 2

\* Iterations of the loop that are followed: one more than an execution needs
\* whose every schedule run advances the global step.
MaxLoops == MaxTarget + 1

\* ------------------------------------------------------------------ configuration
\* The keys of ps_params_dict: one entry for a SingleTaskModel, one per task
\* for a MultiTaskModel.
FirstTask == "A"
TaskPool == {"A", "B"}
ScheduleKeys(single) == IF single THEN {FirstTask} ELSE TaskPool

\* model_task_name as the constructor leaves it: the only key of
\* ps_params_dict for a SingleTaskModel, and the caller's argument (a task, or
\* nothing) for a MultiTaskModel.
TaskNames(single) == IF single THEN {FirstTask} ELSE {""} \cup TaskPool

\* train.save_interval_seconds as the save-only checkpointer reads it.
SaveIntervals == {0, 600}

\* The keys of a schedule's task_dict: 'Train' and one eval dataset.
ProgramKinds == <<"Train", "Test">>

\* ps.Programs(): the programs of the schedule of task, in list order.
SchedulePrograms(task) == [k \in DOMAIN ProgramKinds |-> <<task, ProgramKinds[k]>>]

\* self._programs: the programs of every schedule of ps_params_dict, schedule
\* after schedule.
Programs(single) ==
  IF single THEN SchedulePrograms(FirstTask)
  ELSE SchedulePrograms("A") \o SchedulePrograms("B")

\* The Params state while an executor runs: one empty node, nothing called.
NoParams ==
  /\ used = 1
  /\ params = EmptyHeap
  /\ frozen = [n \in NodeIds |-> FALSE]
  /\ last = Returned(Call("Params", 0, <<>>, NoValue), 1)
  /\ steps = 0

\* Mutant of ExecInit: the constructor goes on to build the sub-graphs without
\* waiting for the accelerator.
ExecInitUnready ==
  /\ NoParams
  /\ NoCheckpointer
  /\ single_task_mode \in BOOLEAN
  /\ model_task_name \in TaskNames(single_task_mode)
  /\ max_steps \in 1..MaxTarget
  /\ save_interval_seconds \in SaveIntervals
  /\ steps_per_run \in [ScheduleKeys(single_task_mode) -> 0..MaxAdvance]
  /\ pc = "build"
  /\ GlobalStep = 0
  /\ global_step = 0
  /\ program_schedule = ""
  /\ checkpoints = <<>>
  /\ events = <<>>
  /\ calls = <<>>
  /\ attempts = 0
  /\ next_program = 1
  /\ in_progress = {}

\* The executor in __init__, its schedules and programs instantiated, about
\* to call _WaitTillInit().
ExecInit ==
  /\ NoParams
  /\ NoCheckpointer
  /\ single_task_mode \in BOOLEAN
  /\ model_task_name \in TaskNames(single_task_mode)
  /\ max_steps \in 1..MaxTarget
  /\ save_interval_seconds \in SaveIntervals
  /\ steps_per_run \in [ScheduleKeys(single_task_mode) -> 0..MaxAdvance]
  /\ pc = "wait_init"
  /\ GlobalStep = 0
  /\ global_step = 0
  /\ program_schedule = ""
  /\ checkpoints = <<>>
  /\ events = <<>>
  /\ calls = <<>>
  /\ attempts = 0
  /\ next_program = 1
  /\ in_progress = {}

\* ------------------------------------------------------------------ the logs
\* One call made by the loop: what was called, the step it was given or left
\* behind, and the task it concerns.
Event(ev, step, task) == [ev |-> ev, step |-> step, task |-> task]

Logged(ev) == { i \in DOMAIN events : events[i].ev = ev }

\* Iterations of `while True` begun so far.
Iterations == Cardinality(Logged("GetGlobalStep"))

\* One call received by the accelerator (program <<>>) or by a program, and
\* how it ended: "ok", or the kind of the error it raised.
ProgramCall(call, program, outcome) ==
  [call |-> call, program |-> program, outcome |-> outcome]

\* tf.logging.info('TPU initialization failed: %s', e)
InitFailedLogged == ProgramCall("logging.info", <<>>, "TPU initialization failed")

Received(call) == { i \in DOMAIN calls : calls[i].call = call }

\* ------------------------------------------------------------------ collaborators
\* BaseRunner._ShouldStop(sess, global_step): the global step has reached the
\* configured target.
ShouldStop(step) == step >= max_steps

\* Mutant of CheckpointerSave: MaybeSave while the interval has not passed.
CheckpointerMaybeSave(cps, log, gsteps) ==
  IF save_interval_seconds = 0
    THEN [checkpoints |-> Append(cps, gsteps),
          events |-> Append(log, Event("Save", gsteps, ""))]
    ELSE [checkpoints |-> cps, events |-> log]

\* Checkpointer.Save(sess, gsteps): logs 'Save checkpoint' and writes the
\* checkpoint labelled gsteps, whatever save_interval_seconds is.  cps are the
\* checkpoints on disk and log the log before the call.
CheckpointerSave(cps, log, gsteps) ==
  [checkpoints |-> Append(cps, gsteps),
   events |-> Append(log, Event("Save", gsteps, ""))]

\* Mutant of TaskSelected: only single-task mode bypasses the scheduler.
TaskSelectedSingleOnly == single_task_mode

\* `self._single_task_mode or self._model_task_name`: a task is explicitly
\* selected.
TaskSelected == single_task_mode \/ model_task_name # ""

\* Mutant of SaveLabel: the step is read again after the run.
SaveLabelFresh == GlobalStep

\* The step the loop passes to Save after a schedule run: its local
\* global_step, read at the top of the iteration.
SaveLabel == global_step

\* py_utils.transient_tf_errors, and every other error.
WaitOutcomes == {"ready", "transient", "error"}

\* ------------------------------------------------------------------ __init__
\* Mutant of WaitTillInit: every error is retried.
WaitTillInitRetryAll ==
  /\ pc = "wait_init"
  /\ \E outcome \in WaitOutcomes :
       /\ calls' = IF outcome = "transient"
                     THEN calls \o << ProgramCall("WaitTillInit", <<>>, outcome),
                                      InitFailedLogged >>
                     ELSE Append(calls, ProgramCall("WaitTillInit", <<>>, outcome))
       /\ pc' = CASE outcome = "ready" -> "build"
                  [] OTHER -> IF attempts + 1 < MaxAttempts THEN "wait_init" ELSE "failed"
  /\ attempts' = attempts + 1
  /\ UNCHANGED <<config, GlobalStep, global_step, program_schedule, checkpoints,
                 events, next_program, in_progress>>
  /\ UNCHANGED <<paramVars, ckptVars>>

\* One attempt of _WaitTillInit() under RetryOnTransientTfError: the
\* accelerator is initialised; or a transient error is logged and raised again,
\* and the decorator makes another attempt unless it has made MaxAttempts; or
\* another error leaves the constructor.
WaitTillInit ==
  /\ pc = "wait_init"
  /\ \E outcome \in WaitOutcomes :
       /\ calls' = IF outcome = "transient"
                     THEN calls \o << ProgramCall("WaitTillInit", <<>>, outcome),
                                      InitFailedLogged >>
                     ELSE Append(calls, ProgramCall("WaitTillInit", <<>>, outcome))
       /\ pc' = CASE outcome = "ready" -> "build"
                  [] outcome = "transient" ->
                       IF attempts + 1 < MaxAttempts THEN "wait_init" ELSE "failed"
                  [] outcome = "error" -> "failed"
  /\ attempts' = attempts + 1
  /\ UNCHANGED <<config, GlobalStep, global_step, program_schedule, checkpoints,
                 events, next_program, in_progress>>
  /\ UNCHANGED <<paramVars, ckptVars>>

\* for program in self._programs: program.BuildTpuSubgraph()
BuildTpuSubgraph ==
  /\ pc = "build"
  /\ calls' = Append(calls, ProgramCall("BuildTpuSubgraph",
                                        Programs(single_task_mode)[next_program], "ok"))
  /\ IF next_program = Len(Programs(single_task_mode))
       THEN pc' = "create" /\ next_program' = 1
       ELSE pc' = pc /\ next_program' = next_program + 1
  /\ UNCHANGED <<config, GlobalStep, global_step, program_schedule, checkpoints,
                 events, attempts, in_progress>>
  /\ UNCHANGED <<paramVars, ckptVars>>

\* for program in self._programs: program.CreateCheckpointer(); after the last
\* one the save-only checkpointer of the executor is created and __init__
\* returns.
CreateCheckpointer ==
  /\ pc = "create"
  /\ calls' = Append(calls, ProgramCall("CreateCheckpointer",
                                        Programs(single_task_mode)[next_program], "ok"))
  /\ IF next_program = Len(Programs(single_task_mode))
       THEN pc' = "constructed" /\ next_program' = 1
       ELSE pc' = pc /\ next_program' = next_program + 1
  /\ UNCHANGED <<config, GlobalStep, global_step, program_schedule, checkpoints,
                 events, attempts, in_progress>>
  /\ UNCHANGED <<paramVars, ckptVars>>

\* Start(): self._RunLoop('executor_tpu', self._Loop)
Start ==
  /\ pc = "constructed"
  /\ pc' = "restore"
  /\ next_program' = 1
  /\ UNCHANGED <<config, GlobalStep, global_step, program_schedule, checkpoints,
                 events, calls, attempts, in_progress>>
  /\ UNCHANGED <<paramVars, ckptVars>>

\* ------------------------------------------------------------------ _Loop
\* The call on the session that the thread is about to make: the restore of
\* a program, the run of the selected schedule, or a Save.
Pending ==
  CASE pc = "restore" -> "Restore"
    [] pc = "run" -> "Run"
    [] pc = "save" -> "Save"
    [] pc = "should_stop" /\ ShouldStop(global_step) -> "Save"
    [] OTHER -> "none"

\* The thread enters program.RestoreIfNeeded(sess), program_schedule.Run(sess)
\* or save_only_checkpointer.Save(sess, global_step).
BeginCall ==
  /\ Pending \notin in_progress \cup {"none"}
  /\ in_progress' = in_progress \cup {Pending}
  /\ UNCHANGED <<config, pc, GlobalStep, global_step, program_schedule, checkpoints,
                 events, calls, attempts, next_program>>
  /\ UNCHANGED <<paramVars, ckptVars>>

\* Mutant of RestoreIfNeeded: only the first program is restored.
RestoreIfNeededFirstOnly ==
  /\ pc = "restore"
  /\ "Restore" \in in_progress
  /\ \E restored \in 0..MaxTarget :
       /\ GlobalStep' = restored
       /\ events' = Append(events, Event("RestoreIfNeeded", restored, ""))
  /\ calls' = Append(calls, ProgramCall("RestoreIfNeeded",
                                        Programs(single_task_mode)[next_program], "ok"))
  /\ pc' = "loop"
  /\ in_progress' = in_progress \ {"Restore"}
  /\ UNCHANGED <<config, global_step, program_schedule, checkpoints, attempts,
                 next_program>>
  /\ UNCHANGED <<paramVars, ckptVars>>

\* for program in self._programs: program.RestoreIfNeeded(sess).  The first
\* call finds the variables uninitialised and leaves the global step of the
\* latest checkpoint, or 0 without a checkpoint; the calls after it find the
\* variables initialised and change nothing.
RestoreIfNeeded ==
  /\ pc = "restore"
  /\ "Restore" \in in_progress
  /\ \E restored \in (IF next_program = 1 THEN 0..MaxTarget ELSE {GlobalStep}) :
       /\ GlobalStep' = restored
       /\ IF next_program = Len(Programs(single_task_mode))
            THEN /\ pc' = "loop"
                 /\ next_program' = 1
                 /\ events' = Append(events, Event("RestoreIfNeeded", restored, ""))
            ELSE /\ pc' = pc
                 /\ next_program' = next_program + 1
                 /\ UNCHANGED events
  /\ calls' = Append(calls, ProgramCall("RestoreIfNeeded",
                                        Programs(single_task_mode)[next_program], "ok"))
  /\ in_progress' = in_progress \ {"Restore"}
  /\ UNCHANGED <<config, global_step, program_schedule, checkpoints, attempts>>
  /\ UNCHANGED <<paramVars, ckptVars>>

\* Mutant of GetGlobalStep: the stop condition is checked only after a run.
GetGlobalStepThenSelect ==
  /\ pc = "loop"
  /\ Iterations < MaxLoops
  /\ global_step' = GlobalStep
  /\ events' = Append(events, Event("GetGlobalStep", GlobalStep, ""))
  /\ pc' = IF Logged("Run") = {} THEN "select" ELSE "should_stop"
  /\ UNCHANGED <<config, GlobalStep, program_schedule, checkpoints, calls, attempts,
                 next_program, in_progress>>
  /\ UNCHANGED <<paramVars, ckptVars>>

\* global_step = sess.run(py_utils.GetGlobalStep())
GetGlobalStep ==
  /\ pc = "loop"
  /\ Iterations < MaxLoops
  /\ global_step' = GlobalStep
  /\ events' = Append(events, Event("GetGlobalStep", GlobalStep, ""))
  /\ pc' = "should_stop"
  /\ UNCHANGED <<config, GlobalStep, program_schedule, checkpoints, calls, attempts,
                 next_program, in_progress>>
  /\ UNCHANGED <<paramVars, ckptVars>>

\* Mutant of CheckStop: the loop returns without the final Save.
CheckStopNoSave ==
  /\ pc = "should_stop"
  /\ IF ShouldStop(global_step)
       THEN /\ events' = Append(events, Event("ShouldStop", global_step, ""))
            /\ pc' = "stopped"
       ELSE /\ events' = Append(events, Event("ShouldStop", global_step, ""))
            /\ pc' = "select"
  /\ in_progress' = {}
  /\ UNCHANGED <<config, GlobalStep, global_step, program_schedule, checkpoints,
                 calls, attempts, next_program>>
  /\ UNCHANGED <<paramVars, ckptVars>>

\* if self._ShouldStop(sess, global_step): Save(sess, global_step); return.
\* The first disjunct is the return of the final Save.
CheckStop ==
  /\ pc = "should_stop"
  /\ \/ /\ ShouldStop(global_step)
        /\ "Save" \in in_progress
        /\ \A saved \in {CheckpointerSave(checkpoints,
                            Append(events, Event("ShouldStop", global_step, "")),
                            global_step)} :
             /\ checkpoints' = saved.checkpoints
             /\ events' = saved.events
        /\ in_progress' = in_progress \ {"Save"}
        /\ pc' = "stopped"
     \/ /\ ~ShouldStop(global_step)
        /\ events' = Append(events, Event("ShouldStop", global_step, ""))
        /\ pc' = "select"
        /\ UNCHANGED <<checkpoints, in_progress>>
  /\ UNCHANGED <<config, GlobalStep, global_step, program_schedule, calls, attempts,
                 next_program>>
  /\ UNCHANGED <<paramVars, ckptVars>>

\* program_schedule = self._program_schedule_dict[...]: the schedule of the
\* selected task, or of the task the scheduler samples for global_step.
SelectSchedule ==
  /\ pc = "select"
  /\ \/ /\ TaskSelected
        /\ program_schedule' = model_task_name
        /\ UNCHANGED events
     \/ /\ ~TaskSelected
        /\ \E model_task \in ScheduleKeys(single_task_mode) :
             /\ program_schedule' = model_task
             /\ events' = Append(events, Event("Sample", global_step, model_task))
  /\ pc' = "run"
  /\ next_program' = 1
  /\ UNCHANGED <<config, GlobalStep, global_step, checkpoints, calls, attempts,
                 in_progress>>
  /\ UNCHANGED <<paramVars, ckptVars>>

\* The steps a program has trained when its Run ends: all the steps of the
\* schedule when the train program returns, any number of them when it
\* raises, none for another program.
StepsTrained(program, outcome) ==
  IF program[2] # "Train" THEN {0}
  ELSE IF outcome = "ok" THEN {steps_per_run[program[1]]}
  ELSE 0..steps_per_run[program[1]]

\* Mutant of RunProgram: the exception of a program is caught by the schedule,
\* which goes on to its next program.
RunProgramCaught ==
  /\ pc = "run"
  /\ "Run" \in in_progress
  /\ next_program <= Len(SchedulePrograms(program_schedule))
  /\ \A program \in {SchedulePrograms(program_schedule)[next_program]} :
       \E outcome \in {"ok", "error"} :
         /\ calls' = Append(calls, ProgramCall("Run", program, outcome))
         /\ \E trained \in StepsTrained(program, outcome) :
              GlobalStep' = GlobalStep + trained
  /\ next_program' = next_program + 1
  /\ UNCHANGED <<config, pc, global_step, program_schedule, checkpoints, events,
                 attempts, in_progress>>
  /\ UNCHANGED <<paramVars, ckptVars>>

\* Inside program_schedule.Run(sess): the next program of the schedule runs.
\* It returns, or it raises and the exception leaves Run and _Loop.
RunProgram ==
  /\ pc = "run"
  /\ "Run" \in in_progress
  /\ next_program <= Len(SchedulePrograms(program_schedule))
  /\ \A program \in {SchedulePrograms(program_schedule)[next_program]} :
       \E outcome \in {"ok", "error"} :
         /\ calls' = Append(calls, ProgramCall("Run", program, outcome))
         /\ \E trained \in StepsTrained(program, outcome) :
              GlobalStep' = GlobalStep + trained
         /\ IF outcome = "ok"
              THEN /\ pc' = pc
                   /\ next_program' = next_program + 1
                   /\ UNCHANGED in_progress
              ELSE /\ pc' = "failed"
                   /\ in_progress' = in_progress \ {"Run"}
                   /\ UNCHANGED next_program
  /\ UNCHANGED <<config, global_step, program_schedule, checkpoints, events,
                 attempts>>
  /\ UNCHANGED <<paramVars, ckptVars>>

\* program_schedule.Run(sess) returns: the programs of the schedule have run
\* in order and left the global step advanced by the steps they trained.
RunSchedule ==
  /\ pc = "run"
  /\ "Run" \in in_progress
  /\ next_program > Len(SchedulePrograms(program_schedule))
  /\ events' = Append(events, Event("Run", GlobalStep, program_schedule))
  /\ in_progress' = in_progress \ {"Run"}
  /\ pc' = "save"
  /\ UNCHANGED <<config, GlobalStep, global_step, program_schedule, checkpoints,
                 calls, attempts, next_program>>
  /\ UNCHANGED <<paramVars, ckptVars>>

\* Mutant of SaveAfterRun: the checkpoint is written in the background while
\* the loop goes on.
SaveAfterRunAsync ==
  /\ pc = "save"
  /\ "Save" \in in_progress
  /\ \A saved \in {CheckpointerSave(checkpoints, events, SaveLabel)} :
       /\ checkpoints' = saved.checkpoints
       /\ events' = saved.events
  /\ pc' = "loop"
  /\ UNCHANGED <<config, GlobalStep, global_step, program_schedule, calls, attempts,
                 next_program, in_progress>>
  /\ UNCHANGED <<paramVars, ckptVars>>

\* self.save_only_checkpointer.Save(sess, global_step) after the run returns.
SaveAfterRun ==
  /\ pc = "save"
  /\ "Save" \in in_progress
  /\ \A saved \in {CheckpointerSave(checkpoints, events, SaveLabel)} :
       /\ checkpoints' = saved.checkpoints
       /\ events' = saved.events
  /\ in_progress' = in_progress \ {"Save"}
  /\ pc' = "loop"
  /\ UNCHANGED <<config, GlobalStep, global_step, program_schedule, calls, attempts,
                 next_program>>
  /\ UNCHANGED <<paramVars, ckptVars>>

ExecNext ==
  \/ WaitTillInit
  \/ BuildTpuSubgraph
  \/ CreateCheckpointer
  \/ Start
  \/ BeginCall
  \/ RestoreIfNeeded
  \/ GetGlobalStep
  \/ CheckStop
  \/ SelectSchedule
  \/ RunProgram
  \/ RunSchedule
  \/ SaveAfterRun

ExecSpec == ExecInit /\ [][ExecNext]_vars

\* The constructor and the loop are the body of one thread that nothing
\* blocks: whenever a step of it can be taken, it is taken.
FairExecSpec == ExecSpec /\ WF_vars(ExecNext)

\* ================================================================== checkpointer
\* Checkpointer (lingvo/core/checkpointer.py): RestoreIfNeeded, MaybeSave and
\* Save of one checkpointer on one session.  MaybeSave reads a clock whose
\* readings nothing orders.

\* ------------------------------------------------------------------ bounds
\* Calls are made on the checkpointer while its log has fewer entries than
\* MaxCalls; the readings time.time() can give are MaxTicks steps of five
\* minutes.
MaxCalls == 3
MaxTicks == 3

Times == { 300 * k : k \in 0..MaxTicks }

\* The global steps passed to MaybeSave and Save.
StepLabels == {0, 1}

\* ------------------------------------------------------------------ the session
\* GetUninitializedVars(sess)
Uninitialized(values) == { v \in GlobalVars : values[v] = "none" }

\* self._saver.restore(sess, path): the variables of the saver take the values
\* of the checkpoint.
SaverRestore(values, saver) ==
  [v \in GlobalVars |-> IF v \in saver THEN "checkpoint" ELSE values[v]]

\* py_utils.OverrideVarsFromCheckpoints: the variables the rules name take
\* the values of the checkpoints the rules name.
OverrideVarsFromCheckpoints(values, rules) ==
  [v \in GlobalVars |-> IF v \in rules THEN "rules" ELSE values[v]]

\* sess.run(tf.variables_initializer(uninitialized_vars))
VariablesInitializer(values, uninitialized_vars) ==
  [v \in GlobalVars |-> IF v \in uninitialized_vars THEN "initializer" ELSE values[v]]

\* How a call ends and what it leaves in the session.
Ends(kind, values) == [kind |-> kind, values |-> values]

\* RestoreFromPath(sess, checkpoint_path)
RestoreFromPath(values, saver) ==
  LET restored == SaverRestore(values, saver)
  IN  IF Uninitialized(restored) # {} THEN Ends("AssertionError", restored)
      ELSE Ends("ok", restored)

\* Mutant of RestoreIfNeededFrom: variables are initialised whenever some are
\* uninitialised, without a look at the others.
RestoreIfNeededLenient(so, values, latest, saver, rules) ==
  IF so THEN Ends("AssertionError", values)
  ELSE IF Uninitialized(values) = {} THEN Ends("ok", values)
  ELSE IF latest THEN RestoreFromPath(values, saver)
  ELSE LET overridden == IF rules # {} THEN OverrideVarsFromCheckpoints(values, rules)
                         ELSE values
       IN  Ends("ok", VariablesInitializer(overridden, Uninitialized(overridden)))

\* RestoreIfNeeded(sess) of a checkpointer that is save-only or not (so), on
\* a session with the variable values given, with or without a latest
\* checkpoint in the train directory.
RestoreIfNeededFrom(so, values, latest, saver, rules) ==
  IF so THEN Ends("AssertionError", values)
  ELSE IF Uninitialized(values) = {} THEN Ends("ok", values)
  ELSE IF Uninitialized(values) # GlobalVars THEN Ends("AssertionError", values)
  ELSE IF latest THEN RestoreFromPath(values, saver)
  ELSE LET overridden == IF rules # {} THEN OverrideVarsFromCheckpoints(values, rules)
                         ELSE values
       IN  IF rules # {} /\ Uninitialized(overridden) = {} THEN Ends("ok", overridden)
           ELSE Ends("ok", VariablesInitializer(overridden, Uninitialized(overridden)))

\* The savers _GetSaver can return: the saver of all variables, and for a
\* model with EMA under evaluation the saver of the averaged variables.
Savers(so) == IF so THEN {GlobalVars} ELSE {GlobalVars, {"w"}}

\* The variables init_from_checkpoint_rules can name: a save-only checkpointer
\* has no model and no rules.
RuleSets(so) == IF so THEN {{}} ELSE SUBSET GlobalVars

\* ------------------------------------------------------------------ the log
\* MaybeSave read the clock and decided.
MaybeSaved(time, saved) == [ev |-> "MaybeSave", now |-> time, saved |-> saved]

\* RestoreIfNeeded was called on the session in the state given.
RestoreCalled(values, latest) == [ev |-> "RestoreIfNeeded", values |-> values, latest |-> latest]

\* ------------------------------------------------------------------ Checkpointer
\* A checkpointer after __init__, on a session in which any of the variables
\* may be initialised already.
CheckpointerInit ==
  /\ NoParams
  /\ single_task_mode = TRUE
  /\ model_task_name = ""
  /\ max_steps = 0
  /\ save_interval_seconds \in SaveIntervals
  /\ steps_per_run = <<>>
  /\ pc = "none"
  /\ GlobalStep = 0
  /\ global_step = 0
  /\ program_schedule = ""
  /\ checkpoints = <<>>
  /\ events = <<>>
  /\ calls = <<>>
  /\ attempts = 0
  /\ next_program = 1
  /\ in_progress = {}
  /\ save_only \in BOOLEAN
  /\ next_checkpoint_seconds = 0
  /\ now = 0
  /\ var_values \in [GlobalVars -> {"none", "given"}]
  /\ latest_checkpoint \in BOOLEAN
  /\ saver_vars \in Savers(save_only)
  /\ rule_vars \in RuleSets(save_only)
  /\ result = "ok"

\* What no call on a checkpointer changes.
ckptFixed == <<single_task_mode, model_task_name, max_steps, save_interval_seconds,
               steps_per_run, pc, GlobalStep, global_step, program_schedule, calls,
               attempts, next_program, in_progress, save_only, saver_vars, rule_vars>>

\* checkpointer.RestoreIfNeeded(sess)
CheckpointerRestoreIfNeeded ==
  /\ Len(events) < MaxCalls
  /\ \A ended \in {RestoreIfNeededFrom(save_only, var_values, latest_checkpoint,
                                       saver_vars, rule_vars)} :
       /\ var_values' = ended.values
       /\ result' = ended.kind
  /\ events' = Append(events, RestoreCalled(var_values, latest_checkpoint))
  /\ UNCHANGED <<ckptFixed, checkpoints, next_checkpoint_seconds, now, latest_checkpoint>>
  /\ UNCHANGED paramVars

\* Mutant of MaybeSave: the checkpoint is saved only after the time of the
\* next checkpoint has passed.
MaybeSaveLate(gsteps, time) ==
  /\ Len(events) < MaxCalls
  /\ now' = time
  /\ IF time > next_checkpoint_seconds
       THEN /\ \A saved \in {CheckpointerSave(checkpoints,
                               Append(events, MaybeSaved(time, TRUE)), gsteps)} :
                 /\ checkpoints' = saved.checkpoints
                 /\ events' = saved.events
            /\ next_checkpoint_seconds' = time + save_interval_seconds
            /\ latest_checkpoint' = TRUE
       ELSE /\ events' = Append(events, MaybeSaved(time, FALSE))
            /\ UNCHANGED <<checkpoints, next_checkpoint_seconds, latest_checkpoint>>
  /\ result' = "ok"
  /\ UNCHANGED <<ckptFixed, var_values>>
  /\ UNCHANGED paramVars

\* checkpointer.MaybeSave(sess, gsteps) when time.time() gives time.
MaybeSave(gsteps, time) ==
  /\ Len(events) < MaxCalls
  /\ now' = time
  /\ IF time >= next_checkpoint_seconds
       THEN /\ \A saved \in {CheckpointerSave(checkpoints,
                               Append(events, MaybeSaved(time, TRUE)), gsteps)} :
                 /\ checkpoints' = saved.checkpoints
                 /\ events' = saved.events
            /\ next_checkpoint_seconds' = time + save_interval_seconds
            /\ latest_checkpoint' = TRUE
       ELSE /\ events' = Append(events, MaybeSaved(time, FALSE))
            /\ UNCHANGED <<checkpoints, next_checkpoint_seconds, latest_checkpoint>>
  /\ result' = "ok"
  /\ UNCHANGED <<ckptFixed, var_values>>
  /\ UNCHANGED paramVars

\* checkpointer.Save(sess, gsteps)
Save(gsteps) ==
  /\ Len(events) < MaxCalls
  /\ \A saved \in {CheckpointerSave(checkpoints, events, gsteps)} :
       /\ checkpoints' = saved.checkpoints
       /\ events' = saved.events
  /\ latest_checkpoint' = TRUE
  /\ result' = "ok"
  /\ UNCHANGED <<ckptFixed, now, var_values, next_checkpoint_seconds>>
  /\ UNCHANGED paramVars

CheckpointerNext ==
  \/ CheckpointerRestoreIfNeeded
  \/ \E gsteps \in StepLabels, time \in Times : MaybeSave(gsteps, time)
  \/ \E gsteps \in StepLabels : Save(gsteps)

CheckpointerSpec == CheckpointerInit /\ [][CheckpointerNext]_vars

\* ------------------------------------------------------------------ claims
\* The step is a call of one of ops (and not the catch of an exception).
Called(c, ops) == Running /\ c.op \in ops

\* The call was rejected as a mutation of a frozen node and changed nothing.
RejectedFrozen ==
  /\ last'.kind = "frozen"
  /\ ErrClass(last'.kind) = "TypeError"
  /\ UNCHANGED <<used, params, frozen>>

\* Every read through node n gives what it gave before the step.
SameReads(n) == \A path \in PathPool : Get(params', n, path) = Get(params, n, path)

\* C1: Freeze() freezes the node it is called on, and every Define, Set
\* (keyword or attribute style) and Delete called on a frozen node raises the
\* frozen error (TypeError) and changes no entry: reads give the values from
\* before, and a name whose Define was rejected stays undefined.
C1_FrozenNodeRejects ==
  [][\A c \in {last'} :
       /\ Called(c, {"Freeze"}) => frozen'[c.node]
       /\ (Called(c, {"Define", "Set", "Delete"}) /\ frozen[c.node]) =>
            /\ RejectedFrozen
            /\ SameReads(c.node)
            /\ c.op = "Define" =>
                 Contains(params', c.node, c.path[1]) = Contains(params, c.node, c.path[1])]_vars

\* C1 witness: right after p.Freeze(), a Define of a new, valid name was
\* rejected by p, which holds entries, and the name is still undefined.
C1_Witness ==
  /\ last.op = "Define" /\ last.kind = "frozen"
  /\ frozen[last.node]
  /\ last.after.op = "Freeze" /\ last.after.node = last.node
  /\ DOMAIN params[last.node] # {}
  /\ ValidName(last.path[1])
  /\ Get(params, last.node, last.path).kind = "undefined"

\* C2 as claimed: Freeze() also freezes every node contained in the node.
C2_FreezeIsDeep ==
  [][\A c \in {last'} :
       Called(c, {"Freeze"}) => \A m \in Reach(params, c.node) : frozen'[m]]_vars

\* A frozen node holds node n.
InFrozenParent(n) == \E p \in Allocated : frozen[p] /\ n \in Children(params, p)

\* C2 amended: Freeze() freezes the node it is called on and no other node.  A
\* nested node that was not frozen itself still takes an attribute write made
\* on it after its parent was frozen: p.nested.foo = v stores v, and the
\* nested node stays unfrozen.
C2_FreezeIsShallow ==
  [][\A c \in {last'} :
       /\ Called(c, {"Freeze"}) =>
            /\ frozen'[c.node]
            /\ \A m \in NodeIds \ {c.node} : frozen'[m] = frozen[m]
       /\ ( /\ Called(c, {"Set"}) /\ Len(c.path) = 1
            /\ InFrozenParent(c.node) /\ ~frozen[c.node]
            /\ Contains(params, c.node, c.path[1]) ) =>
            /\ c.kind = "ok"
            /\ Get(params', c.node, c.path).val = c.val
            /\ ~frozen'[c.node]]_vars

\* C2 witness: after p.Freeze() the write p.nested.foo = 2 went through.
C2_Witness ==
  /\ last.op = "Set" /\ last.kind = "ok"
  /\ last.node = 2 /\ last.path = <<Name1>> /\ last.val = Atom(2)
  /\ frozen[1] /\ ~frozen[2]
  /\ Get(params, 1, <<Name2, Name1>>) = [kind |-> "ok", path |-> <<Name2, Name1>>, val |-> Atom(2)]

C4_CopyKeepsFrozen ==
  [][\A c \in {last'} :
       Called(c, {"Copy"}) =>
         /\ frozen'[c.ret] = frozen[c.node]
         /\ frozen[c.node] =>
              /\ \A nm \in NamePool :
                   /\ DefineOutcome(c.ret, nm)' = "frozen"
                   /\ DefineOutcome(c.node, nm) = "frozen"
              /\ \A path \in PathPool :
                   /\ MutateOutcome(c.ret, path)'.kind = "frozen"
                   /\ MutateOutcome(c.node, path).kind = "frozen"]_vars

\* C4 witness: a Set on the copy of a frozen node was rejected as frozen.
C4_Witness ==
  /\ last.op = "Set" /\ last.kind = "frozen"
  /\ last.after.op = "Copy" /\ last.after.ret = last.node
  /\ frozen[last.after.node] /\ frozen[last.node]

\* The content of node n: each name with its value, a nested node replaced by
\* its own content.
RECURSIVE Unfold(_, _)
Unfold(ps, n) ==
  [nm \in DOMAIN ps[n] |->
     IF ps[n][nm].kind = "node"
     THEN [kind |-> "node", v |-> 0, sub |-> Unfold(ps, ps[n][nm].v)]
     ELSE [kind |-> ps[n][nm].kind, v |-> ps[n][nm].v, sub |-> <<>>]]

\* The nodes of the heap before the step that the step left as they were.
Untouched(S) == \A m \in S : params'[m] = params[m] /\ frozen'[m] = frozen[m]

\* C5: Copy() returns a deep, independent clone.  The clone is made of fresh
\* nodes only, equals the original, shares its atoms, and the copy changes no
\* existing node; and a Define, Set, Delete or Freeze called on a node changes
\* neither an entry nor the frozen flag of any node outside the nodes it
\* contains, nor the content of a node that shares no node with it, so calls
\* on the original never show in the clone and calls on the clone never show
\* in the original (a clone taken before p.Freeze() stays unfrozen).
C5_CopyIsIndependent ==
  [][\A c \in {last'} :
       /\ Called(c, {"Copy"}) =>
            /\ Reach(params', c.ret) \cap Allocated = {}
            /\ Reach(params', c.ret) \cap Reach(params', c.node) = {}
            /\ NodeEq(params', c.ret, c.node)
            /\ \A path \in PathPool :
                 Get(params, c.node, path).val.kind # "node" =>
                   Get(params', c.ret, path) = Get(params, c.node, path)
            /\ Untouched(Allocated)
       /\ Called(c, {"Define", "Set", "Delete", "Freeze"}) =>
            \A R \in {Reach(params, c.node)} :
              /\ Untouched(Allocated \ R)
              /\ \A b \in Allocated \ R :
                   Reach(params, b) \cap R = {} =>
                     /\ Unfold(params', b) = Unfold(params, b)
                     /\ \A m \in Reach(params', b) : frozen'[m] = frozen[m]]_vars

\* C5 witness: outer was copied, then outer.Set(**{'inner.alpha': 2}); the copy
\* and its nested node still hold what outer held when it was copied.
C5_Witness ==
  /\ last.op = "Set" /\ last.kind = "ok"
  /\ last.node = 1 /\ last.path = <<Name2, Name1>> /\ last.val = Atom(2)
  /\ used = 4 /\ steps = 2
  /\ params[2][Name1] = Atom(2)
  /\ params[3] = (Name1 :> Atom(1)) @@ (Name2 :> NodeV(4))
  /\ params[4] = NestedHeap[2]
  /\ ~NodeEq(params, 1, 3)

\* The names of NamePool that match ^[a-z][a-z0-9_]*$.
PatternNames == { <<"a", "_">>, <<"b", "9">> }

\* C6: Define(name, v) of a valid name on an unfrozen node that lacks it makes
\* Get(name), the attribute read and `name in node` show v; Define of a name
\* the node already has raises the 'already defined' AttributeError and leaves
\* the stored value as it was.
C6_DefineThenGet ==
  [][\A c \in {last'} :
       (Called(c, {"Define"}) /\ ~frozen[c.node] /\ c.path[1] \in PatternNames) =>
         IF Contains(params, c.node, c.path[1])
         THEN /\ c.kind = "duplicate"
              /\ ErrClass(c.kind) = "AttributeError"
              /\ c.names = c.path
              /\ UNCHANGED <<used, params, frozen>>
              /\ Get(params', c.node, c.path) = Get(params, c.node, c.path)
         ELSE /\ c.kind = "ok"
              /\ Get(params', c.node, c.path) = [kind |-> "ok", path |-> c.path, val |-> c.val]
              /\ Contains(params', c.node, c.path[1])]_vars

\* C6 witness: a name was defined and its second Define was rejected as a
\* duplicate; the entry holds the value of the first Define.
C6_Witness ==
  /\ last.op = "Define" /\ last.kind = "duplicate"
  /\ last.after.op = "Define" /\ last.after.node = last.node
  /\ last.after.path = last.path
  /\ Get(params, last.node, last.path).kind = "ok"
  /\ Get(params, last.node, last.path).val = last.after.val

\* Every entry name of every node matches the pattern.
NamesMatch(ps) == \A n \in NodeIds : DOMAIN ps[n] \subseteq PatternNames

\* C7: Define of a name that does not match ^[a-z][a-z0-9_]*$ (None, '', a
\* leading underscore, an uppercase first letter, a leading digit, another
\* character) raises the invalid-name AssertionError and inserts nothing, and
\* in every reachable state every entry name of every node matches the
\* pattern (a node maps each name to one value, so names are unique).
C7_NamesValid ==
  /\ NamesMatch(params)
  /\ [][/\ NamesMatch(params')
        /\ \A c \in {last'} :
             ( /\ Called(c, {"Define"}) /\ ~frozen[c.node]
               /\ c.path[1] \notin PatternNames ) =>
               /\ c.kind = "invalid_name"
               /\ ErrClass(c.kind) = "AssertionError"
               /\ UNCHANGED <<used, params, frozen>>]_vars

\* C7 witness: Define('foo$') was rejected as an invalid name.
C7_Witness ==
  /\ last.op = "Define" /\ last.kind = "invalid_name"
  /\ last.path = << <<"a", "$">> >>
  /\ ~frozen[last.node]
  /\ <<"a", "$">> \notin DOMAIN params[last.node]

\* The path without its last name.
Front(path) == SubSeq(path, 1, Len(path) - 1)

\* The path resolves from node n up to its last name.
FrontIsNode(n, path) ==
  Len(path) > 1 =>
    /\ Get(params, n, Front(path)).kind = "ok"
    /\ Get(params, n, Front(path)).val.kind = "node"

\* C8: a Set that fails changes nothing.  Where no node of the tree is frozen:
\* a Set or attribute write whose last name is undefined (at the top level or
\* at the end of a dotted path) raises an AttributeError that names the whole
\* dotted path and creates no entry; a Set by a dotted path through an entry
\* that holds a dict raises the 'Cannot introspect' AssertionError and leaves
\* the dict as it was.
C8_FailedSetChangesNothing ==
  [][\A c \in {last'} :
       Called(c, {"Set"}) =>
         /\ c.kind # "ok" => UNCHANGED <<used, params, frozen>>
         /\ (\A m \in Reach(params, c.node) : ~frozen[m]) =>
              /\ ( /\ Get(params, c.node, c.path).kind = "undefined"
                   /\ FrontIsNode(c.node, c.path) ) =>
                   /\ c.kind = "undefined"
                   /\ ErrClass(c.kind) = "AttributeError"
                   /\ c.names = c.path
                   /\ Get(params', c.node, c.path).kind = "undefined"
              /\ ( /\ Len(c.path) > 1
                   /\ Get(params, c.node, Front(c.path)).kind = "ok"
                   /\ Get(params, c.node, Front(c.path)).val = DictV ) =>
                   /\ c.kind = "cannot_introspect"
                   /\ ErrClass(c.kind) = "AssertionError"
                   /\ Get(params', c.node, Front(c.path)).val = DictV]_vars

\* C8 witness: outer.Set(**{'d.foo': v}) through the dict d was rejected with
\* 'Cannot introspect' and d is still the dict.
C8_Witness ==
  /\ last.op = "Set" /\ last.kind = "cannot_introspect"
  /\ Len(last.path) = 2
  /\ last.names = Front(last.path)
  /\ Get(params, last.node, Front(last.path)).val = DictV

\* C9: Delete(dotted_path), where the path is defined and no node of the tree
\* is frozen, removes just the last name of the path from the node that holds
\* it: afterwards Get of the path raises an AttributeError naming the path,
\* `in` says the name is gone, and every other entry of every node has its
\* value.
C9_DeleteRemovesOneEntry ==
  [][\A c \in {last'} :
       ( /\ Called(c, {"Delete"})
         /\ Get(params, c.node, c.path).kind = "ok"
         /\ \A m \in Reach(params, c.node) : ~frozen[m] ) =>
         \A h \in {GetNested(params, c.node, c.path).node} :
           /\ c.kind = "ok"
           /\ Get(params', c.node, c.path).kind = "undefined"
           /\ ErrClass(Get(params', c.node, c.path).kind) = "AttributeError"
           /\ Get(params', c.node, c.path).path = c.path
           /\ ~Contains(params', h, c.path[Len(c.path)])
           /\ \A m \in NodeIds \ {h} : params'[m] = params[m]
           /\ \A nm \in DOMAIN params[h] \ {c.path[Len(c.path)]} :
                Contains(params', h, nm) /\ params'[h][nm] = params[h][nm]
           /\ UNCHANGED <<used, frozen>>]_vars

\* C9 witness: outer.Delete('inner.alpha') emptied inner and left outer's own
\* two entries in place.
C9_Witness ==
  /\ last.op = "Delete" /\ last.kind = "ok"
  /\ last.node = 1 /\ last.path = <<Name2, Name1>>
  /\ params[1] = NestedHeap[1]
  /\ params[2] = NoNames

\* == on the nodes 1..k of heap ps says what the contents say, is symmetric,
\* and never holds between a node and a value that is no node.
EqualityAgrees(ps, k) ==
  \A a, b \in 1..k :
    /\ NodeEq(ps, a, b) <=> Unfold(ps, a) = Unfold(ps, b)
    /\ NodeEq(ps, a, b) <=> NodeEq(ps, b, a)
    /\ \A x \in Atoms \cup {DictV} :
         ~ValueEq(ps, NodeV(a), x) /\ ~ValueEq(ps, x, NodeV(a))

\* C10: two nodes are equal exactly when they have the same names and, name
\* by name, equal values, nested nodes compared by content; a node never
\* equals a value that is no node; equality is symmetric; and the node Copy()
\* returns equals the node it was copied from.
C10_Equality ==
  /\ EqualityAgrees(params, used)
  /\ [][\A c \in {last'} :
          /\ (Running /\ c.kind = "ok") => EqualityAgrees(params', used')
          /\ Called(c, {"Copy"}) =>
               /\ NodeEq(params', c.ret, c.node)
               /\ NodeEq(params', c.node, c.ret)]_vars

\* C10 witness: the copy of outer equals outer though it is made of other
\* nodes, and outer does not equal its nested node.
C10_Witness ==
  /\ last.op = "Copy" /\ last.kind = "ok" /\ last.node = 1 /\ last.ret = 3
  /\ params[1] = NestedHeap[1]
  /\ NodeEq(params, 3, 1)
  /\ params[3] # params[1]
  /\ ~NodeEq(params, 1, 2)

\* ------------------------------------------------------------------ claims on the text form
\* A list or tuple that holds None.
HoldsNone(val) ==
  /\ val.kind \in {"list", "tuple"}
  /\ \E i \in 1..Len(val.v) : val.v[i] = NoneV

\* The value of the leaf at path of node n.
Leaf(ps, n, path) == Get(ps, n, path).val

\* The step reads the typed text of p back into the clean node.
ReadsTypedTextOfP(c) ==
  Called(c, {"FromText"}) /\ c.val = ListV(ToText(params, PRoot))

\* The step reads the text of p without its type map back into the clean node.
ReadsUntypedTextOfP(c) ==
  Called(c, {"FromText"}) /\ c.val = ListV(Untyped(ToText(params, PRoot)))

ReadsHandLine(c, toks) ==
  /\ Called(c, {"FromText"})
  /\ c.val = ListV(<< Line(<<KeyOpt>>, toks, NoTag) >>)
  /\ Leaf(params, CleanRoot, <<KeyOpt>>) = NoneV

\* The call raised ValueError for the entry that holds None, which still
\* holds None.
RejectedUnreadable(c) ==
  /\ c.kind = "unreadable"
  /\ ErrClass(c.kind) = "ValueError"
  /\ c.names = <<KeyOpt>>
  /\ Leaf(params', CleanRoot, <<KeyOpt>>) = NoneV

\* C12 as claimed: when the entry holds None, FromText without type_overrides
\* raises ValueError whatever the text of the value is.
C12_UntypedNoneAlwaysFails ==
  [][\A c \in {last'} :
       \A ln \in UNION { { t[1] } : t \in HandTexts } :
         ReadsHandLine(c, ln.toks) => RejectedUnreadable(c)]_vars

\* C12 amended: when the entry holds None, FromText without type_overrides
\* raises ValueError and leaves the entry None when the text of the value is
\* a number, a string or a list (1.0, 7, [1, 2]), and the text ToText gave for
\* it is read as the typed value when the type map of
\* ToText(include_types=True) is passed as type_overrides (the other entries
\* being readable as they are); a boolean word (optional_bool : true) is read
\* as the boolean without type_overrides.
C12_UntypedNoneNeedsType ==
  [][\A c \in {last'} :
       /\ \A toks \in { <<"1.0">>, <<"7">>, <<"[", "1", "2", "]">> } :
            ReadsHandLine(c, toks) => RejectedUnreadable(c)
       /\ ReadsHandLine(c, <<"true">>) =>
            /\ c.kind = "ok"
            /\ Leaf(params', CleanRoot, <<KeyOpt>>) = BoolV(TRUE)
       /\ ( /\ Leaf(params, CleanRoot, <<KeyOpt>>) = NoneV
            /\ Leaf(params, PRoot, <<KeyOpt>>).kind \in {"int", "float", "str", "list", "tuple"}
            /\ Leaf(params, PRoot, <<KeyInt>>).kind = "int" ) =>
            /\ ReadsUntypedTextOfP(c) => RejectedUnreadable(c)
            /\ ReadsTypedTextOfP(c) =>
                 /\ c.kind = "ok"
                 /\ ~HoldsNone(Leaf(params, PRoot, <<KeyOpt>>)) =>
                      Leaf(params', CleanRoot, <<KeyOpt>>) = Leaf(params, PRoot, <<KeyOpt>>)]_vars

\* C12 witness: p.Set(scale=1.0), then the clean copy refused p.ToText() with
\* a ValueError and still holds None.
C12_Witness ==
  /\ last.op = "FromText" /\ last.kind = "unreadable"
  /\ last.val = ListV(Untyped(ToText(params, PRoot)))
  /\ last.names = <<KeyOpt>>
  /\ Leaf(params, PRoot, <<KeyOpt>>) = FloatV(10)
  /\ Leaf(params, CleanRoot, <<KeyOpt>>) = NoneV

\* The lines of a text are in strictly increasing order of dotted key.
InKeyOrder(text) ==
  \A i, j \in 1..Len(text) : i < j => KeyLess(text[i], text[j])

\* The text has one line for each leaf of node n and no other line.
OneLinePerLeaf(ps, n, text) ==
  /\ Len(text) = Cardinality(LeafPaths(ps, n))
  /\ { text[i].key : i \in 1..Len(text) } = LeafPaths(ps, n)

\* C13: ToText / ToTextWithTypes gives the same text whenever it is called on
\* a node (the call changes nothing, and whatever the order in which the call
\* meets the entries, which is what the history of Define and Set decides,
\* the text is the one text of the node),
\* the same text on every node equal to it (an independent copy, a node that
\* got its values by other calls), and the text has one line per leaf, in
\* increasing order of dotted key.
C13_ToTextDeterministic ==
  [][\A c \in {last'} :
       Called(c, {"ToText"}) =>
         \A full \in {ToText(params, c.node)} :
           /\ c.ret = IF c.val.v THEN full ELSE Untyped(full)
           /\ UNCHANGED <<used, params, frozen>>
           /\ \A m \in TextRoots :
                NodeEq(params, m, c.node) => ToText(params, m) = full
           /\ InKeyOrder(c.ret)
           /\ OneLinePerLeaf(params, c.node, c.ret)]_vars

\* C13 witness: p took its values by Set, the clean node by FromText; the two
\* are equal, and ToTextWithTypes was called on the clean node.
C13_Witness ==
  /\ last.op = "ToText" /\ last.kind = "ok" /\ last.node = CleanRoot /\ last.val.v
  /\ steps = MaxOps + 1
  /\ params[CleanRoot] # CleanEntries(CleanRoot)
  /\ NodeEq(params, CleanRoot, PRoot)
  /\ last.ret = ToText(params, PRoot)
  /\ Len(last.ret) = 3

\* The leaves of a and b that differ.
DifferingLeaves(ps, a, b) ==
  { path \in LeafPaths(ps, a) \cup LeafPaths(ps, b) : Leaf(ps, a, path) # Leaf(ps, b, path) }

\* The index of the line of the diff d that opens the pair of the leaf at
\* path: a '>' line for its last name, at the depth of its nesting, under the
\* '?' line of its node when it is nested.
PairAt(d, path, i) ==
  /\ i < Len(d)
  /\ d[i].mark = ">" /\ d[i + 1].mark = "<"
  /\ d[i].key = path[Len(path)] /\ d[i + 1].key = path[Len(path)]
  /\ d[i].depth = Len(path) - 1 /\ d[i + 1].depth = Len(path) - 1
  /\ Len(path) > 1 =>
       \E q \in 1..(i - 1) :
         /\ d[q].mark = "?" /\ d[q].key = path[1] /\ d[q].depth = 0
         /\ \A k \in (q + 1)..i : d[k].depth > 0

\* The keys of the lines at depth 0, in the order of the diff, never go down.
TopKeysSorted(d) ==
  \A i, j \in 1..Len(d) :
    (i < j /\ d[i].depth = 0 /\ d[j].depth = 0) => ~StrLess(d[j].key, d[i].key)

\* C14: a.TextDiff(b) reports just the leaves that differ.  On equal nodes it
\* is empty; every leaf that differs has exactly one '>' / '<' pair, a leaf of
\* a nested node under one '? key:' line and one level deeper; there is no
\* other line, so a key with equal values has none; and the keys come in
\* sorted order.
C14_TextDiffExact ==
  [][\A c \in {last'} :
       Called(c, {"TextDiff"}) =>
         \A D \in {DifferingLeaves(params, c.node, c.val.v)} :
           /\ UNCHANGED <<used, params, frozen>>
           /\ NodeEq(params, c.node, c.val.v) => c.ret = <<>>
           /\ \A path \in D :
                Cardinality({ i \in 1..Len(c.ret) : PairAt(c.ret, path, i) }) = 1
           /\ Cardinality({ i \in 1..Len(c.ret) : c.ret[i].mark = "?" })
                = Cardinality({ path[1] : path \in { p \in D : Len(p) > 1 } })
           /\ Len(c.ret) = 2 * Cardinality(D)
                + Cardinality({ path[1] : path \in { p \in D : Len(p) > 1 } })
           /\ TopKeysSorted(c.ret)]_vars

\* C14 witness: a top-level leaf and a leaf of the nested node differ; the
\* diff has the pair of the first, the '?' line and the indented pair of the
\* second, five lines as in testDiff.
C14_Witness ==
  /\ last.op = "TextDiff" /\ last.kind = "ok"
  /\ DifferingLeaves(params, last.node, last.val.v) = { <<KeyInt>>, <<KeyNode, KeyInner>> }
  /\ Len(last.ret) = 5
  /\ last.ret[1].mark = "?" /\ last.ret[1].key = KeyNode
  /\ last.ret[2].depth = 1 /\ last.ret[2].key = KeyInner
  /\ last.ret[4].mark = ">" /\ last.ret[4].key = KeyInt /\ last.ret[4].depth = 0

\* The value printed on the lines of the diff d with the given mark for the
\* leaf at path.
Printed(d, mark, path) ==
  { d[i].toks : i \in { k \in 1..Len(d) :
      d[k].mark = mark /\ d[k].key = path[Len(path)] /\ d[k].depth = Len(path) - 1 } }

\* C15 as claimed: in this.TextDiff(other) the '>' line of a leaf that differs
\* carries the value held by other and the '<' line the value held by this.
C15_GreaterCarriesOther ==
  [][\A c \in {last'} :
       Called(c, {"TextDiff"}) =>
         \A path \in DifferingLeaves(params, c.node, c.val.v) :
           /\ Printed(c.ret, ">", path) = { DiffRepr(Leaf(params, c.val.v, path)) }
           /\ Printed(c.ret, "<", path) = { DiffRepr(Leaf(params, c.node, path)) }]_vars

\* C15 amended: in this.TextDiff(other) the '>' line of a leaf that differs
\* carries the value held by this, the node TextDiff is called on, and the
\* '<' line carries the value held by other.
C15_GreaterCarriesThis ==
  [][\A c \in {last'} :
       Called(c, {"TextDiff"}) =>
         \A path \in DifferingLeaves(params, c.node, c.val.v) :
           /\ Printed(c.ret, ">", path) = { DiffRepr(Leaf(params, c.node, path)) }
           /\ Printed(c.ret, "<", path) = { DiffRepr(Leaf(params, c.val.v, path)) }]_vars

\* C15 witness: p holds 43 where the clean node holds 42, and p.TextDiff(clean)
\* is '> a: 43', '< a: 42'.
C15_Witness ==
  /\ last.op = "TextDiff" /\ last.kind = "ok"
  /\ last.node = PRoot /\ last.val = NodeV(CleanRoot)
  /\ Leaf(params, PRoot, <<KeyInt>>) = IntV(43)
  /\ Leaf(params, CleanRoot, <<KeyInt>>) = IntV(42)
  /\ last.ret = << DiffLine(">", 0, KeyInt, <<"43">>), DiffLine("<", 0, KeyInt, <<"42">>) >>

\* ------------------------------------------------------------------ claims on the executor
Stopped == pc = "stopped"

\* An exception has left the constructor or the loop.
Failed == pc = "failed"

\* Every program schedule advances the global step when it runs.
Advancing == \A task \in DOMAIN steps_per_run : steps_per_run[task] > 0

\* The step the programs were restored to.
Restored == events[1].step

\* The stop check just made ends the loop with one more checkpoint, labelled
\* with a step that has reached the target, as the last entry of the log.
StopsWithFinalSave ==
  /\ pc' = "stopped"
  /\ Len(checkpoints') = Len(checkpoints) + 1
  /\ checkpoints'[Len(checkpoints')] >= max_steps
  /\ events'[Len(events')].ev = "Save"
  /\ events'[Len(events')].step >= max_steps

\* C16: the loop stops exactly at the first stop check that finds the global
\* step at or above the target (the step checked is the session's global step,
\* and the loop is never stopped below the target); on stopping it saves one
\* final checkpoint labelled with a step at or above the target (the only
\* step before the stop is the entry into that Save) and takes no further
\* step, so no schedule runs afterwards; and when every schedule run advances
\* the global step, the loop eventually stops, unless an exception ended the
\* execution before.
C16_StopsAtTarget ==
  /\ [](pc = "should_stop" => global_step = GlobalStep)
  /\ [](Stopped => GlobalStep >= max_steps)
  /\ [][pc = "should_stop" =>
          IF GlobalStep >= max_steps
            THEN \/ StopsWithFinalSave
                 \/ /\ in_progress = {} /\ in_progress' = {"Save"}
                    /\ UNCHANGED <<pc, checkpoints, events>>
            ELSE pc' = "select" /\ UNCHANGED checkpoints]_vars
  /\ [][~Stopped]_vars
  /\ (Advancing ~> (Stopped \/ Failed))

\* C16 witness: the loop has stopped after two schedule runs that advanced the
\* global step, the final checkpoint following the one of the last run.
C16_Witness ==
  /\ Stopped
  /\ Advancing
  /\ Cardinality(Logged("Run")) = 2
  /\ Len(checkpoints) = 3

\* The entries of the log after entry i up to the next schedule run or stop
\* check (or up to the end of the log).
UntilNextRunOrCheck(i) ==
  { k \in DOMAIN events :
      /\ k > i
      /\ \A j \in DOMAIN events :
           (i < j /\ j < k) => events[j].ev \notin {"Run", "ShouldStop"} }

SavesAfter(i) == { k \in UntilNextRunOrCheck(i) : events[k].ev = "Save" }

\* C17: every schedule run is followed by exactly one Save before the next
\* schedule run or stop check, whatever save_interval_seconds is: a run that
\* is the last entry of the log has its Save pending, every other run has the
\* Save as the next entry and no second one.
C17_SaveAfterEveryRun ==
  \A i \in Logged("Run") :
    /\ i = Len(events) => pc = "save"
    /\ i < Len(events) =>
         /\ events[i + 1].ev = "Save"
         /\ Cardinality(SavesAfter(i)) = 1
    /\ Len(checkpoints) >= Cardinality({ k \in Logged("Run") : k < i })

\* C17 witness: with a save interval of ten minutes, two schedule runs have
\* been made and saved, and the next iteration has begun.
C17_Witness ==
  /\ save_interval_seconds > 0
  /\ Cardinality(Logged("Run")) = 2
  /\ Len(checkpoints) = 2
  /\ pc = "should_stop"

\* C18: the checkpoint saved after a schedule run is labelled with the global
\* step as the run left it.
C18_SaveLabelIsCurrentStep ==
  \A i \in Logged("Run") :
    i < Len(events) =>
      /\ events[i + 1].ev = "Save"
      /\ events[i + 1].step = events[i].step

\* C19 as stated: every stop check comes after a schedule run and its Save,
\* so an execution that has stopped has run a schedule.
C19_RunsBeforeFirstCheck ==
  /\ \A j \in Logged("ShouldStop") :
       \E i \in Logged("Run") : i < j /\ events[i + 1].ev = "Save"
  /\ Stopped => Logged("Run") # {}

\* C19: the stop check is the first thing an iteration does after reading the
\* global step: every selection, schedule run and Save of the loop comes after
\* a stop check of the same iteration, and when the restored global step is
\* already at or above the target no schedule is ever run and the execution
\* stops with the one final checkpoint, labelled with the restored step.
C19_StopCheckComesFirst ==
  /\ \A i \in Logged("Run") :
       \E j \in Logged("ShouldStop") :
         /\ j < i
         /\ events[j - 1].ev = "GetGlobalStep"
         /\ \A k \in DOMAIN events : (j < k /\ k < i) => events[k].ev = "Sample"
  /\ \A i \in Logged("Save") \cup Logged("Sample") :
       \E j \in Logged("ShouldStop") : j < i
  /\ (events # <<>> /\ Restored >= max_steps) =>
       /\ Logged("Run") = {}
       /\ pc \in {"loop", "should_stop", "stopped"}
       /\ Stopped => checkpoints = <<Restored>>

\* C19 witness: restored at or above the target, the execution has stopped
\* without running a schedule.
C19_Witness ==
  /\ Stopped
  /\ Restored >= max_steps
  /\ Logged("Run") = {}
  /\ Len(checkpoints) = 1

\* The schedule run logged at i follows one query of the scheduler, made with
\* the step read at the top of the iteration, and is the schedule of the task
\* the scheduler returned.
RunFollowsSample(i) ==
  /\ i > 3
  /\ events[i - 1].ev = "Sample"
  /\ events[i - 1].task = events[i].task
  /\ events[i - 2].ev = "ShouldStop"
  /\ events[i - 3].ev = "GetGlobalStep"
  /\ events[i - 1].step = events[i - 3].step

\* The run of the schedule of task was ended by the exception of one of its
\* programs.
RunRaised(task) ==
  /\ Failed
  /\ calls[Len(calls)].call = "Run"
  /\ calls[Len(calls)].outcome = "error"
  /\ calls[Len(calls)].program[1] = task

\* Every query of the scheduler is followed by the schedule run it selected:
\* the run that is in progress or was ended by an exception while the query
\* is the last entry of the log, the next entry otherwise.
SampleThenRun ==
  \A k \in Logged("Sample") :
    /\ k = Len(events) =>
         /\ program_schedule = events[k].task
         /\ pc = "run" \/ RunRaised(events[k].task)
    /\ k < Len(events) => events[k + 1].ev = "Run"

HoldsNode(val, n) ==
  \/ val = NodeV(n)
  \/ /\ val.kind \in {"list", "dict"}
     /\ \E i \in DOMAIN val.v : val.v[i] = NodeV(n)

\* Every entry of outer that was given inner still holds the very node inner,
\* the list given inner.Copy() holds the copy and not inner, and the copy has
\* the entries it had.
ReferencesKept ==
  /\ used' = used
  /\ \A nm \in {KeyNode, KeySeq, KeyDict} : HoldsNode(params'[OuterNode][nm], InnerNode)
  /\ Name2 \in DOMAIN params'[OuterNode] => params'[OuterNode][Name2] = NodeV(InnerNode)
  /\ HoldsNode(params'[OuterNode][KeyCopies], CopyNode)
  /\ ~HoldsNode(params'[OuterNode][KeyCopies], InnerNode)
  /\ params'[CopyNode] = params[CopyNode]

\* C29: nested nodes are held by reference.  Defining an entry with inner
\* stores inner itself and allocates nothing; a Set, a Delete or a FromText
\* line that goes through an entry of outer holding inner changes the node
\* inner itself, so the change is read through the variable inner and through
\* every entry, list and dict that holds inner, while the copy of inner held
\* by 'list_of_params' keeps its entries.
C29_NestedByReference ==
  [][\A c \in {last'} :
       /\ (Called(c, {"Define"}) /\ c.kind = "ok") =>
            /\ params'[OuterNode][c.path[1]] = NodeV(InnerNode)
            /\ params'[InnerNode] = params[InnerNode]
            /\ ReferencesKept
       /\ (Called(c, {"Set"}) /\ c.kind = "ok" /\ Len(c.path) = 2) =>
            /\ c.path[2] \in DOMAIN params'[InnerNode]
            /\ params'[InnerNode][c.path[2]] = c.val
            /\ ReferencesKept
       /\ (Called(c, {"Delete"}) /\ c.kind = "ok" /\ Len(c.path) = 2) =>
            /\ c.path[2] \notin DOMAIN params'[InnerNode]
            /\ ReferencesKept
       /\ (Called(c, {"FromText"}) /\ c.kind = "ok") =>
            /\ params'[InnerNode][KeyInner] = StrV("C")
            /\ ReferencesKept]_vars

\* C29 witness: after a second entry was defined with inner, a Set through it
\* is read through the variable inner and the entry 'inner', the list and the
\* dict still hold inner, and the copy still has 'X'.
C29_Witness ==
  /\ last.op = "Set"
  /\ last.kind = "ok"
  /\ last.path = <<Name2, KeyInner>>
  /\ params[InnerNode][KeyInner] = StrV("C")
  /\ Get(params, OuterNode, <<KeyNode, KeyInner>>).val = StrV("C")
  /\ HoldsNode(params[OuterNode][KeySeq], InnerNode)
  /\ HoldsNode(params[OuterNode][KeyDict], InnerNode)
  /\ params[CopyNode][KeyInner] = StrV("X")

\* The keys named by the lines of text that do not start with '#'.
NamedKeys(text) ==
  { text[i].key : i \in { j \in DOMAIN text : "comment" \notin DOMAIN text[j] } }

\* The call changed nothing but leaves of the clean node that text names on
\* a line that is no comment: the clean node has the leaves it had, the others
\* hold what they held, and no other node, no frozen flag and no allocation
\* changed.
OnlyNamedChanged(text) ==
  /\ LeafPaths(params', CleanRoot) = LeafPaths(params, CleanRoot)
  /\ \A path \in LeafPaths(params, CleanRoot) \ NamedKeys(text) :
       Leaf(params', CleanRoot, path) = Leaf(params, CleanRoot, path)
  /\ \A n \in NodeIds \ Reach(params, CleanRoot) : params'[n] = params[n]
  /\ UNCHANGED <<used, frozen>>

\* The Python types a value text can be read as under the type kind.
KindsRead(kind, toks) ==
  CASE kind \in {"int", "float", "bool"} -> {kind}
    [] kind = "str" -> IF toks[1] = "[" THEN {"list"} ELSE {"str"}
    [] kind \in {"list", "tuple"} -> {"list", "tuple"}
    [] kind = "NoneType" -> {"NoneType", "bool"}

\* The type that governs the reading of line ln into an entry holding old.
GoverningKind(old, ln) == IF ln.tag = "none" THEN old.kind ELSE ln.tag

\* C30 as claimed: FromText changes only the keys named on lines that are no
\* comments, and without type_overrides the value read has the type of the
\* value the entry held.
C30_FromTextKeepsType ==
  [][\A c \in {last'} :
       (Called(c, {"FromText"}) /\ c.node = CleanRoot) =>
         /\ OnlyNamedChanged(c.val.v)
         /\ c.kind = "ok" =>
              \A ln \in { c.val.v[i] : i \in DOMAIN c.val.v } :
                ("comment" \notin DOMAIN ln /\ ln.tag = "none") =>
                  Leaf(params', CleanRoot, ln.key).kind = Leaf(params, CleanRoot, ln.key).kind]_vars

\* C30 amended: FromText changes only the keys named on lines that are no
\* comments (a key named on a comment line and every key absent from the text
\* keep their values, also when the call raises), and a value is read under
\* the type of type_overrides when there is one and of the entry's previous
\* value otherwise: an int, float or bool entry receives that type; a string
\* entry receives the text as a string ('1.0' from the text 1.0, the float
\* only under the override float) unless the text is a list in brackets,
\* which it receives as the list; an entry holding None receives None or a
\* bool; a list or tuple entry receives a list or tuple.
C30_FromTextFrame ==
  [][\A c \in {last'} :
       (Called(c, {"FromText"}) /\ c.node = CleanRoot) =>
         /\ OnlyNamedChanged(c.val.v)
         /\ c.kind = "ok" =>
              \A ln \in { c.val.v[i] : i \in DOMAIN c.val.v } :
                "comment" \notin DOMAIN ln =>
                  \A old \in {Leaf(params, CleanRoot, ln.key)},
                     new \in {Leaf(params', CleanRoot, ln.key)} :
                    /\ new.kind \in KindsRead(GoverningKind(old, ln), ln.toks)
                    /\ (old.kind = "str" /\ ln.toks = <<"1.0">>) =>
                         new = IF ln.tag = "float" THEN FloatV(10) ELSE StrV("1.0")]_vars

\* C30 witness: the text `# a_ : 7`, `a.b : 'C'` was read into the clean node:
\* the int named on the comment line is still 42, the entry absent from the
\* text still holds None, and the string entry holds 'C'.
C30_Witness ==
  /\ last.op = "FromText" /\ last.kind = "ok" /\ last.node = CleanRoot
  /\ last.val = ListV(CommentedText)
  /\ Leaf(params, CleanRoot, <<KeyInt>>) = IntV(42)
  /\ Leaf(params, CleanRoot, <<KeyOpt>>) = NoneV
  /\ Leaf(params, CleanRoot, <<KeyNode, KeyInner>>) = StrV("C")

\* ------------------------------------------------------------------ claims on the constructor and the calls of the loop
\* The programs of every configured schedule.
AllPrograms ==
  { Programs(single_task_mode)[k] : k \in DOMAIN Programs(single_task_mode) }

\* The calls of one kind that one program has received.
CallsOf(call, program) == { i \in Received(call) : calls[i].program = program }

\* Every program has its sub-graph and its checkpointer.
StartupComplete ==
  \A program \in AllPrograms :
    /\ CallsOf("BuildTpuSubgraph", program) # {}
    /\ CallsOf("CreateCheckpointer", program) # {}

\* _Loop has been entered.
InLoop ==
  /\ pc \notin {"wait_init", "build", "create", "constructed"}
  /\ Failed => Received("RestoreIfNeeded") # {}

\* C21 as claimed: the sub-graph and the checkpointer of every program are
\* built before the executor starts to wait for the accelerator, and both are
\* done before the first iteration of the loop.
C21_BuildBeforeWait ==
  /\ \A i \in Received("BuildTpuSubgraph") \cup Received("CreateCheckpointer"),
        j \in Received("WaitTillInit") : i < j
  /\ Received("WaitTillInit") # {} => StartupComplete
  /\ InLoop => StartupComplete

\* C21 amended: the executor first waits for the accelerator, and only when
\* an attempt of _WaitTillInit has succeeded does it build the sub-graph and
\* then the checkpointer of every program: every attempt precedes every
\* BuildTpuSubgraph and CreateCheckpointer call, nothing is built while the
\* wait goes on, and the wait, the sub-graphs and the checkpointers of all
\* programs are complete before _Loop is entered and its first iteration
\* begins.
C21_WaitBeforeBuild ==
  /\ \A i \in Received("BuildTpuSubgraph") \cup Received("CreateCheckpointer") :
       /\ \A j \in Received("WaitTillInit") : j < i
       /\ \E j \in Received("WaitTillInit") : calls[j].outcome = "ready"
  /\ pc = "wait_init" =>
       Received("BuildTpuSubgraph") \cup Received("CreateCheckpointer") = {}
  /\ (InLoop \/ Iterations > 0) =>
       /\ StartupComplete
       /\ \E j \in Received("WaitTillInit") : calls[j].outcome = "ready"

\* C21 witness: the first iteration of the loop has begun in an executor whose
\* first attempt to initialise the accelerator failed, whose second succeeded
\* and which then built the sub-graph of its first program.
C21_Witness ==
  /\ Iterations = 1
  /\ calls[1] = ProgramCall("WaitTillInit", <<>>, "transient")
  /\ calls[3] = ProgramCall("WaitTillInit", <<>>, "ready")
  /\ calls[4].call = "BuildTpuSubgraph"
  /\ StartupComplete

\* No checkpoint was saved in the iteration that is under way: every Save of
\* the log precedes the last read of the global step, and there is one
\* checkpoint for each schedule run that returned.
NoSaveForIteration ==
  /\ \A s \in Logged("Save"), g \in Logged("GetGlobalStep") :
       (\A h \in Logged("GetGlobalStep") : h <= g) => s < g
  /\ Len(checkpoints) = Cardinality(Logged("Run"))
  /\ Cardinality(Logged("Save")) = Cardinality(Logged("Run"))

\* C22: a program that raises during a schedule run ends the execution: the
\* exception is the last call any program receives and leaves the loop at
\* once, the step in which it is raised saves nothing and logs nothing, the
\* checkpoints on disk are those of the runs that returned before, and the
\* failed executor takes no further step: it selects and runs no schedule.
C22_RunFailureIsFatal ==
  /\ [](\A i \in Received("Run") :
          calls[i].outcome = "error" => i = Len(calls) /\ Failed /\ in_progress = {})
  /\ [](\A task \in TaskPool : RunRaised(task) => NoSaveForIteration)
  /\ [][(pc = "run" /\ calls'[Len(calls')].outcome = "error") =>
          /\ Failed'
          /\ UNCHANGED <<checkpoints, events>>]_vars
  /\ [][~Failed]_vars

\* C22 witness: after one iteration that ran and saved, the train program of
\* the second run raised having trained a step: the executor has failed with
\* the one checkpoint of the first iteration on disk.
C22_Witness ==
  /\ Failed
  /\ \E task \in TaskPool : RunRaised(task)
  /\ calls[Len(calls)].program[2] = "Train"
  /\ Len(checkpoints) = 1
  /\ Cardinality(Logged("Run")) = 1
  /\ GlobalStep > global_step

\* The last attempt of _WaitTillInit.
LastAttempt == CHOOSE i \in Received("WaitTillInit") :
                 \A j \in Received("WaitTillInit") : j <= i

\* What the calls received say about the attempts of _WaitTillInit.
AttemptsInOrder ==
  /\ Cardinality(Received("WaitTillInit")) = attempts
  /\ attempts <= MaxAttempts
  /\ \A i \in Received("WaitTillInit") :
       /\ i # LastAttempt => calls[i].outcome = "transient"
       /\ calls[i].outcome = "transient" =>
            i < Len(calls) /\ calls[i + 1] = InitFailedLogged
  /\ \A i \in Received("logging.info") :
       i > 1 /\ calls[i - 1] = ProgramCall("WaitTillInit", <<>>, "transient")
  /\ attempts > 0 =>
       CASE calls[LastAttempt].outcome = "error" ->
              Failed /\ LastAttempt = Len(calls)
         [] calls[LastAttempt].outcome = "transient" ->
              IF attempts < MaxAttempts THEN pc = "wait_init"
              ELSE Failed /\ LastAttempt + 1 = Len(calls)
         [] calls[LastAttempt].outcome = "ready" ->
              pc # "wait_init" /\ (Failed => Received("Run") # {})

\* C23: _WaitTillInit is attempted at most MaxAttempts times and again only
\* after a transient error: each transient error is logged and raised again,
\* and another attempt follows it while fewer than MaxAttempts were made,
\* after which the executor has failed; an error that is not transient makes
\* the executor fail at once, without a log line of _WaitTillInit and without
\* another attempt; and no sub-graph is built, no checkpointer created, no
\* program restored and no schedule run unless an attempt succeeded before.
C23_BoundedRetry ==
  /\ []AttemptsInOrder
  /\ [](\A i \in DOMAIN calls :
          calls[i].call \in {"BuildTpuSubgraph", "CreateCheckpointer",
                             "RestoreIfNeeded", "Run"} =>
            \E j \in Received("WaitTillInit") : j < i /\ calls[j].outcome = "ready")
  /\ [][attempts' # attempts =>
          /\ attempts' = attempts + 1
          /\ attempts > 0 => calls[LastAttempt].outcome = "transient"]_vars
  /\ \A n \in 0..(MaxAttempts - 1) :
       (pc = "wait_init" /\ attempts = n) ~> (attempts = n + 1)

\* C23 witness: every attempt of _WaitTillInit raised a transient error, the
\* last of MaxAttempts was logged like the others, and the executor has
\* failed without having built anything.
C23_Witness ==
  /\ Failed
  /\ attempts = MaxAttempts
  /\ \A i \in Received("WaitTillInit") : calls[i].outcome = "transient"
  /\ calls[Len(calls)] = InitFailedLogged
  /\ Received("BuildTpuSubgraph") = {}

\* The position of a program in the list of its schedule.
PositionOf(program) ==
  CHOOSE k \in DOMAIN ProgramKinds : SchedulePrograms(program[1])[k] = program

\* The programs run one after another in the order of the list of their
\* schedule: a program that is not the first of its schedule runs right after
\* the one before it in the list has returned, and the first program of a
\* schedule runs after the last program of the schedule run before.
RunsInListOrder ==
  \A i \in Received("Run") :
    IF PositionOf(calls[i].program) > 1
      THEN /\ i > 1
           /\ calls[i - 1] =
                ProgramCall("Run",
                            SchedulePrograms(calls[i].program[1])[PositionOf(calls[i].program) - 1],
                            "ok")
      ELSE \A j \in Received("Run") :
             j = i - 1 =>
               calls[j] = ProgramCall("Run", <<calls[j].program[1], ProgramKinds[Len(ProgramKinds)]>>, "ok")

\* C24: at most one of a schedule run, a Save and a restore is in progress:
\* the restore of a program only before the loop, a run only at the call of
\* program_schedule.Run, a Save only after a run has returned or the stop
\* check has found the target reached; the global step changes only within a
\* restore or a run and the checkpoints only within a Save, each call is
\* entered with no other in progress, and the programs of a schedule run one
\* after another in the order of its list, a schedule only after the one
\* before it has run its last program.
C24_OneAtATime ==
  /\ [](Cardinality(in_progress) <= 1)
  /\ []( /\ "Restore" \in in_progress => pc = "restore"
         /\ "Run" \in in_progress => pc = "run"
         /\ "Save" \in in_progress => pc \in {"save", "should_stop"} )
  /\ []RunsInListOrder
  /\ [][ /\ GlobalStep' # GlobalStep => in_progress \in {{"Restore"}, {"Run"}}
         /\ checkpoints' # checkpoints => in_progress = {"Save"}
         /\ calls' # calls => (pc \in {"restore", "run"} => in_progress = {Pending})
         /\ in_progress' # in_progress => in_progress = {} \/ in_progress' = {} ]_vars

\* C24 witness: in the second iteration, with the checkpoint of the first on
\* disk, the first program of the schedule has returned and the second is
\* about to run: the run is the only call in progress.
C24_Witness ==
  /\ in_progress = {"Run"}
  /\ pc = "run"
  /\ next_program = 2
  /\ Len(checkpoints) = 1
  /\ calls[Len(calls)].call = "Run"

NextSave(i) == { j \in Logged("Save") :
                   j > i /\ \A k \in Logged("Save") : k > i => j <= k }

C26_BuiltHookedRestoredOnce ==
  /\ [](\A program \in AllPrograms :
          \A call \in {"BuildTpuSubgraph", "CreateCheckpointer", "RestoreIfNeeded"} :
            Cardinality(CallsOf(call, program)) <= 1)
  /\ [](\A i \in Received("BuildTpuSubgraph"), j \in Received("CreateCheckpointer"),
           k \in Received("RestoreIfNeeded") : i < j /\ j < k)
  /\ []((Iterations > 0 \/ Received("Run") # {}) =>
          \A program \in AllPrograms :
            \A call \in {"BuildTpuSubgraph", "CreateCheckpointer", "RestoreIfNeeded"} :
              /\ Cardinality(CallsOf(call, program)) = 1
              /\ \A r \in Received("Run") : \A i \in CallsOf(call, program) : i < r)
  /\ [][Iterations > 0 =>
          \A call \in {"BuildTpuSubgraph", "CreateCheckpointer", "RestoreIfNeeded"} :
            { i \in DOMAIN calls' : calls'[i].call = call } = Received(call)]_vars

\* C26 witness: a multi-task executor with task A selected has run the
\* schedule of A twice, and the programs of B, which it never runs, have each
\* been built, given a checkpointer and restored.
C26_Witness ==
  /\ ~single_task_mode
  /\ model_task_name = "A"
  /\ Cardinality(Logged("Run")) = 2
  /\ \A i \in Received("Run") : calls[i].program[1] = "A"
  /\ \A kind \in {"Train", "Test"} :
       /\ CallsOf("BuildTpuSubgraph", <<"B", kind>>) # {}
       /\ CallsOf("CreateCheckpointer", <<"B", kind>>) # {}
       /\ CallsOf("RestoreIfNeeded", <<"B", kind>>) # {}

\* ------------------------------------------------------------------ claims on the checkpointer
\* The entry the step adds first to the log.
Entered == events'[Len(events) + 1]

\* The step is a call of RestoreIfNeeded.
RestoreStep == Len(events') > Len(events) /\ Entered.ev = "RestoreIfNeeded"

\* C27: RestoreIfNeeded ends in one of two ways.  It raises an assertion
\* error exactly when the checkpointer is save-only, or some but not all of
\* the global variables are uninitialised on entry, or all are, a latest
\* checkpoint exists and a variable is still uninitialised after it was
\* restored; otherwise it returns, and every global variable is initialised.
\* When all variables are initialised on entry nothing changes.  When a
\* latest checkpoint exists, no variable gets a value from
\* init_from_checkpoint_rules or from its initialiser: a variable that
\* changes takes the value of the checkpoint, and when variables were
\* uninitialised and the call returns, all of them have.  No checkpoint is
\* written and the time of the next checkpoint stays.
C27_RestoreIfNeeded ==
  [][RestoreStep =>
       /\ result' \in {"ok", "AssertionError"}
       /\ result' = "AssertionError" <=>
            \/ save_only
            \/ Uninitialized(var_values) \notin {{}, GlobalVars}
            \/ /\ Uninitialized(var_values) = GlobalVars
               /\ latest_checkpoint
               /\ Uninitialized(var_values') # {}
       /\ result' = "ok" => Uninitialized(var_values') = {}
       /\ Uninitialized(var_values) = {} => UNCHANGED var_values
       /\ latest_checkpoint =>
            /\ \A v \in GlobalVars :
                 var_values'[v] # var_values[v] => var_values'[v] = "checkpoint"
            /\ (result' = "ok" /\ Uninitialized(var_values) # {}) =>
                 \A v \in GlobalVars : var_values'[v] = "checkpoint"
       /\ UNCHANGED <<checkpoints, next_checkpoint_seconds, latest_checkpoint>>]_vars

\* C27 witness: with no variable initialised and a checkpoint in the train
\* directory, RestoreIfNeeded of a checkpointer whose saver restores only the
\* weight raised an assertion error: the weight has the value of the
\* checkpoint and the global step is uninitialised.
C27_Witness ==
  /\ result = "AssertionError"
  /\ ~save_only
  /\ events # <<>>
  /\ events[Len(events)] = RestoreCalled([v \in GlobalVars |-> "none"], TRUE)
  /\ var_values["w"] = "checkpoint"
  /\ var_values["global_step"] = "none"

\* The entries of the log of the MaybeSave calls that saved.
SavedByMaybeSave ==
  { i \in DOMAIN events : events[i].ev = "MaybeSave" /\ events[i].saved }

\* C28: a MaybeSave call saves exactly when the time it reads is at or after
\* the time of the next checkpoint; the first MaybeSave call on a checkpointer
\* saves; a MaybeSave that saves writes one checkpoint and sets the time of
\* the next checkpoint to the time read plus save_interval_seconds, and one
\* that does not save changes neither the checkpoints, nor that time, nor the
\* session; a direct Save writes one checkpoint and leaves the time of the
\* next checkpoint; and the times read by any two MaybeSave calls that saved
\* are at least save_interval_seconds apart.
C28_MaybeSaveByClock ==
  /\ [][(Len(events') > Len(events) /\ Entered.ev = "MaybeSave") =>
          /\ Entered.now = now'
          /\ Entered.saved <=> now' >= next_checkpoint_seconds
          /\ Entered.saved <=> checkpoints' # checkpoints
          /\ (\A i \in DOMAIN events : events[i].ev # "MaybeSave") => Entered.saved
          /\ Entered.saved =>
               /\ next_checkpoint_seconds' = now' + save_interval_seconds
               /\ Len(checkpoints') = Len(checkpoints) + 1
               /\ Len(events') = Len(events) + 2
               /\ events'[Len(events')].ev = "Save"
          /\ ~Entered.saved =>
               UNCHANGED <<checkpoints, next_checkpoint_seconds, latest_checkpoint,
                           var_values>>]_vars
  /\ [][(Len(events') > Len(events) /\ Entered.ev = "Save") =>
          /\ Len(checkpoints') = Len(checkpoints) + 1
          /\ UNCHANGED next_checkpoint_seconds]_vars
  /\ [](\A i, j \in SavedByMaybeSave :
          i < j => events[j].now - events[i].now >= save_interval_seconds)

\* C28 witness: with an interval of ten minutes, the first MaybeSave read the
\* time 300 and saved, and the MaybeSave after it read the time 600 and did
\* not save: there is one checkpoint and the next is still due at 900.
C28_Witness ==
  /\ save_interval_seconds = 600
  /\ events = << MaybeSaved(300, TRUE), Event("Save", 1, ""), MaybeSaved(600, FALSE) >>
  /\ checkpoints = <<1>>
  /\ next_checkpoint_seconds = 900

====
